---- MODULE Spec2Model ----
(***************************************************************************)
(* The city-map editor of ProgramEngineering/2/2.py: the CityMap graph     *)
(* store, the six reversible commands, and the CommandManager with its     *)
(* undo/redo stacks, its snapshot history and its JSON save/load.          *)
(*                                                                         *)
(* A Python dict is a TLA+ function (its iteration order is abstracted,    *)
(* except inside a parsed JSON document, where an object is the sequence   *)
(* of its key/value pairs in file order).  A Python list is a sequence.    *)
(* An operation that can raise returns res = "raise" together with the     *)
(* graph as the statements executed before the exception left it.          *)
(***************************************************************************)
EXTENDS Integers, Sequences, FiniteSets, Bags, TLC

\* ------------------------------------------------------------------ bounds
\* City names and costs the callers build commands from.
Names == {"A", "B"}
Costs == {1, 2}
\* The names a rename can give or take: the callers' names and one more
RenameNames == Names \cup {"C"}
\* Cap on the number of calls of one run that change the manager or the file.
MaxCalls == 3

\* ------------------------------------------------------------------ helpers
\* The empty dict {}.
EmptyMap == [x \in {} |-> <<>>]

\* A fixed enumeration of a finite set (stands for dict iteration order).
RECURSIVE SeqOf(_)
SeqOf(S) ==
    IF S = {} THEN <<>>
    ELSE LET x == CHOOSE y \in S : TRUE IN <<x>> \o SeqOf(S \ {x})

\* x in lst
InList(lst, x) == \E i \in 1..Len(lst) : lst[i] = x

\* lst.index(x), 1-based; x occurs in lst
IndexOf(lst, x) == CHOOSE i \in 1..Len(lst) : lst[i] = x /\ \A j \in 1..(i-1) : lst[j] # x

\* lst.remove(x): drops the first occurrence; x occurs in lst
RemoveFirst(lst, x) ==
    LET i == IndexOf(lst, x) IN SubSeq(lst, 1, i-1) \o SubSeq(lst, i+1, Len(lst))

\* d[k] = v on the dict d
Put(d, k, v) == [x \in (DOMAIN d) \cup {k} |-> IF x = k THEN v ELSE d[x]]

\* del d[k]; k is a key of d
Del(d, k) == [x \in (DOMAIN d) \ {k} |-> d[x]]

\* self.cities[a][b] = lst; a is a city
SetRoad(g, a, b, lst) == [g EXCEPT ![a] = Put(g[a], b, lst)]

\* del self.cities[a][b]; a is a city and b a key of it
DelRoad(g, a, b) == [g EXCEPT ![a] = Del(g[a], b)]

Ret(r, g) == [res |-> r, cities |-> g]

\* ------------------------------------------------------------------ CityMap
add_city(g, name) ==
    IF name \in DOMAIN g THEN Ret("false", g)
    ELSE Ret("true", Put(g, name, EmptyMap))

\* remove_city without its loop over the other cities
remove_city_only(g, name) ==
    IF name \notin DOMAIN g THEN Ret("false", g)
    ELSE Ret("true", [c \in (DOMAIN g) \ {name} |-> g[c]])

remove_city(g, name) ==
    IF name \notin DOMAIN g THEN Ret("false", g)
    ELSE Ret("true",
             [c \in (DOMAIN g) \ {name} |->
                 IF name \in DOMAIN g[c] THEN Del(g[c], name) ELSE g[c]])

\* rename_city without its loop over the neighbour maps
rename_city_only(g, old_name, new_name) ==
    IF old_name \notin DOMAIN g \/ new_name \in DOMAIN g THEN Ret("false", g)
    ELSE Ret("true", Put(Del(g, old_name), new_name, g[old_name]))

rename_city(g, old_name, new_name) ==
    IF old_name \notin DOMAIN g \/ new_name \in DOMAIN g THEN Ret("false", g)
    ELSE LET moved == Put(Del(g, old_name), new_name, g[old_name])
         IN  Ret("true",
                 [c \in DOMAIN moved |->
                     IF old_name \in DOMAIN moved[c]
                     THEN Put(Del(moved[c], old_name), new_name, moved[c][old_name])
                     ELSE moved[c]])

\* add_road putting the cost at the front of the list of the reverse direction
add_road_front(g, city1, city2, cost) ==
    IF city1 \notin DOMAIN g \/ city2 \notin DOMAIN g THEN Ret("false", g)
    ELSE LET g1 == IF city2 \notin DOMAIN g[city1]
                   THEN SetRoad(SetRoad(g, city1, city2, <<>>), city2, city1, <<>>)
                   ELSE g
             g2 == SetRoad(g1, city1, city2, Append(g1[city1][city2], cost))
         IN  IF city1 \notin DOMAIN g2[city2]
             THEN Ret("raise", g2)
             ELSE Ret("true", SetRoad(g2, city2, city1, <<cost>> \o g2[city2][city1]))

\* add_road(city1, city2, cost)
add_road(g, city1, city2, cost) ==
    IF city1 \notin DOMAIN g \/ city2 \notin DOMAIN g THEN Ret("false", g)
    ELSE LET g1 == IF city2 \notin DOMAIN g[city1]
                   THEN SetRoad(SetRoad(g, city1, city2, <<>>), city2, city1, <<>>)
                   ELSE g
             g2 == SetRoad(g1, city1, city2, Append(g1[city1][city2], cost))
         IN  IF city1 \notin DOMAIN g2[city2]
             THEN Ret("raise", g2)                              \* KeyError
             ELSE Ret("true", SetRoad(g2, city2, city1, Append(g2[city2][city1], cost)))

\* remove_road(city1, city2, cost) with a cost given
remove_road(g, city1, city2, cost) ==
    IF city1 \notin DOMAIN g \/ city2 \notin DOMAIN g THEN Ret("false", g)
    ELSE IF city2 \notin DOMAIN g[city1] THEN Ret("false", g)
    ELSE IF ~InList(g[city1][city2], cost) THEN Ret("true", g)
    ELSE LET g1 == SetRoad(g, city1, city2, RemoveFirst(g[city1][city2], cost))
         IN  IF city1 \notin DOMAIN g1[city2] THEN Ret("raise", g1)        \* KeyError
             ELSE IF ~InList(g1[city2][city1], cost) THEN Ret("raise", g1) \* ValueError
             ELSE LET g2 == SetRoad(g1, city2, city1, RemoveFirst(g1[city2][city1], cost))
                  IN  IF g2[city1][city2] # <<>> THEN Ret("true", g2)
                      ELSE LET g3 == DelRoad(g2, city1, city2)
                           IN  IF city1 \notin DOMAIN g3[city2]
                               THEN Ret("raise", g3)                       \* KeyError
                               ELSE Ret("true", DelRoad(g3, city2, city1))

\* remove_road(city1, city2) with cost left None
remove_road_all(g, city1, city2) ==
    IF city1 \notin DOMAIN g \/ city2 \notin DOMAIN g THEN Ret("false", g)
    ELSE IF city2 \notin DOMAIN g[city1] THEN Ret("false", g)
    ELSE LET g1 == DelRoad(g, city1, city2)
         IN  IF city1 \notin DOMAIN g1[city2] THEN Ret("raise", g1)        \* KeyError
             ELSE Ret("true", DelRoad(g1, city2, city1))

\* update_road_cost(city1, city2, old_cost, new_cost)
update_road_cost(g, city1, city2, old_cost, new_cost) ==
    IF city1 \notin DOMAIN g \/ city2 \notin DOMAIN g THEN Ret("false", g)
    ELSE IF city2 \notin DOMAIN g[city1] THEN Ret("false", g)
    ELSE IF ~InList(g[city1][city2], old_cost) THEN Ret("false", g)
    ELSE LET index == IndexOf(g[city1][city2], old_cost)
             g1 == SetRoad(g, city1, city2, [g[city1][city2] EXCEPT ![index] = new_cost])
         IN  IF city1 \notin DOMAIN g1[city2] THEN Ret("raise", g1)        \* KeyError
             ELSE IF index > Len(g1[city2][city1]) THEN Ret("raise", g1)   \* IndexError
             ELSE Ret("true",
                      SetRoad(g1, city2, city1, [g1[city2][city1] EXCEPT ![index] = new_cost]))

\* ------------------------------------------------------------------ commands
\* A live command object: cls is its Python class, the other fields its
\* attributes.  A RemoveCityCommand also carries oid, the identity of the list
\* object bound to its roads attribute: every record that holds the same list
\* object holds the same oid.
AddCityCommand(name) == [cls |-> "AddCityCommand", name |-> name]
RemoveCityCommand(name, roads, oid) ==
    [cls |-> "RemoveCityCommand", name |-> name, roads |-> roads, oid |-> oid]
RenameCityCommand(old_name, new_name) ==
    [cls |-> "RenameCityCommand", old_name |-> old_name, new_name |-> new_name]
AddRoadCommand(city1, city2, cost) ==
    [cls |-> "AddRoadCommand", city1 |-> city1, city2 |-> city2, cost |-> cost]
RemoveRoadCommand(city1, city2, cost) ==
    [cls |-> "RemoveRoadCommand", city1 |-> city1, city2 |-> city2, cost |-> cost]
UpdateRoadCommand(city1, city2, old_cost, new_cost) ==
    [cls |-> "UpdateRoadCommand", city1 |-> city1, city2 |-> city2,
     old_cost |-> old_cost, new_cost |-> new_cost]

CRet(r, g, cmd) == [res |-> r, cities |-> g, cmd |-> cmd]

\* RemoveCityCommand.execute: the (name, neighbor, costs.copy()) tuples appended
\* to self.roads
CapturedRoads(g, name) ==
    LET nbs == SeqOf(DOMAIN g[name])
    IN  [i \in 1..Len(nbs) |-> <<name, nbs[i], g[name][nbs[i]]>>]

\* The (city1, city2, cost) triples RemoveCityCommand.undo passes to add_road,
\* in the order of its two nested loops.
RECURSIVE RoadCalls(_)
RoadCalls(roads) ==
    IF roads = <<>> THEN <<>>
    ELSE LET r == Head(roads)
         IN  [i \in 1..Len(r[3]) |-> <<r[1], r[2], r[3][i]>>] \o RoadCalls(Tail(roads))

\* The add_road loop of RemoveCityCommand.undo: a False result is ignored, an
\* exception ends the loop.
RECURSIVE ReplayRoads(_, _)
ReplayRoads(g, calls) ==
    IF calls = <<>> THEN Ret("true", g)
    ELSE LET c == Head(calls)
             r == add_road(g, c[1], c[2], c[3])
         IN  IF r.res = "raise" THEN r ELSE ReplayRoads(r.cities, Tail(calls))

\* command.execute()
Execute(cmd, g) ==
    CASE cmd.cls = "AddCityCommand" ->
           LET r == add_city(g, cmd.name) IN CRet(r.res, r.cities, cmd)
      [] cmd.cls = "RemoveCityCommand" ->
           IF cmd.name \notin DOMAIN g THEN CRet("false", g, cmd)
           ELSE LET c2 == [cmd EXCEPT !.roads = cmd.roads \o CapturedRoads(g, cmd.name)]
                    r == remove_city(g, cmd.name)
                IN  CRet(r.res, r.cities, c2)
      [] cmd.cls = "RenameCityCommand" ->
           LET r == rename_city(g, cmd.old_name, cmd.new_name) IN CRet(r.res, r.cities, cmd)
      [] cmd.cls = "AddRoadCommand" ->
           LET r == add_road(g, cmd.city1, cmd.city2, cmd.cost) IN CRet(r.res, r.cities, cmd)
      [] cmd.cls = "RemoveRoadCommand" ->
           LET r == remove_road(g, cmd.city1, cmd.city2, cmd.cost) IN CRet(r.res, r.cities, cmd)
      [] cmd.cls = "UpdateRoadCommand" ->
           LET r == update_road_cost(g, cmd.city1, cmd.city2, cmd.old_cost, cmd.new_cost)
           IN  CRet(r.res, r.cities, cmd)

\* undo() of a command running the command's execute() once more
UndoCmdAsExecute(cmd, g) == Execute(cmd, g)

\* command.undo()
UndoCmd(cmd, g) ==
    CASE cmd.cls = "AddCityCommand" ->
           LET r == remove_city(g, cmd.name) IN CRet(r.res, r.cities, cmd)
      [] cmd.cls = "RemoveCityCommand" ->
           LET a == add_city(g, cmd.name)
           IN  IF a.res # "true" THEN CRet("false", g, cmd)
               ELSE LET r == ReplayRoads(a.cities, RoadCalls(cmd.roads))
                    IN  CRet(r.res, r.cities, cmd)
      [] cmd.cls = "RenameCityCommand" ->
           LET r == rename_city(g, cmd.new_name, cmd.old_name) IN CRet(r.res, r.cities, cmd)
      [] cmd.cls = "AddRoadCommand" ->
           LET r == remove_road(g, cmd.city1, cmd.city2, cmd.cost) IN CRet(r.res, r.cities, cmd)
      [] cmd.cls = "RemoveRoadCommand" ->
           LET r == add_road(g, cmd.city1, cmd.city2, cmd.cost) IN CRet(r.res, r.cities, cmd)
      [] cmd.cls = "UpdateRoadCommand" ->
           LET r == update_road_cost(g, cmd.city1, cmd.city2, cmd.new_cost, cmd.old_cost)
           IN  CRet(r.res, r.cities, cmd)

\* ------------------------------------------------------------------ CommandManager
VARIABLES
    cities,                 \* city_map.cities
    undo_stack,             \* list of live commands, top last
    redo_stack,             \* list of live commands, top last
    history,                \* list of snapshots
    current_history_index,  \* 0-based index into history, -1 before the first snapshot
    file,                   \* the document save_to_file wrote last
    calls,                  \* number of calls so far that changed the manager or the file
    last,                   \* the last call: its name, its outcome, its command
    pre                     \* the manager's fields as they were when the last call began

\* The printer simulation (3.py), a program of its own: its variables keep the
\* values of SimIdle in every specification of the CommandManager
VARIABLES
    printers,               \* Printer.state of the two printers: the class of the state object
    cached_photo,           \* PhotoServiceProxy.cached_photo, 0 for None
    proxy_lock,             \* PhotoServiceProxy.lock is held
    real_calls,             \* how often RealPhotoService.take_photo ran
    returned_photos,        \* the values PhotoServiceProxy.take_photo returned
    request_queue,          \* the items of the Queue, oldest first; a sentinel is None
    unfinished_tasks,       \* Queue.unfinished_tasks
    main,                   \* main(): the statement it is at and its loop counter
    workers,                \* the request_processor threads, a bag: the statement each is
                            \* at and the request it holds
    taken                   \* how often request_queue.get() handed out the request of each id

simvars == <<printers, cached_photo, proxy_lock, real_calls, returned_photos, request_queue, unfinished_tasks,
             main, workers, taken>>

\* No simulation: nothing was constructed
SimIdle ==
    /\ printers = << >>
    /\ cached_photo = 0
    /\ proxy_lock = FALSE
    /\ real_calls = 0
    /\ returned_photos = {}
    /\ request_queue = <<>>
    /\ unfinished_tasks = 0
    /\ main = [pc |-> "idle", i |-> 0]
    /\ workers = << >>
    /\ taken = << >>

vars == <<cities, undo_stack, redo_stack, history, current_history_index,
          file, calls, last, pre, simvars>>

\* _get_safe_state: the graph as a JSON-ready mapping tagged with the version
SafeState(g) ==
    LET cs == SeqOf(DOMAIN g)
        Roads(c) == LET ns == SeqOf(DOMAIN g[c])
                    IN  [j \in 1..Len(ns) |->
                            [key |-> ns[j], val |-> [isList |-> TRUE, v |-> g[c][ns[j]]]]]
    IN  [isDict |-> TRUE,
         version |-> "1.2",
         cities |-> [i \in 1..Len(cs) |->
                        [key |-> cs[i], val |-> [isDict |-> TRUE, items |-> Roads(cs[i])]]]]

\* _command_to_dict: the isinstance chain.  The record of a RemoveCityCommand holds
\* the command's own roads list (same oid), not a copy.
CommandToDict(cmd) ==
    CASE cmd.cls = "AddCityCommand" -> [type |-> "AddCityCommand", name |-> cmd.name]
      [] cmd.cls = "RemoveCityCommand" ->
           [type |-> "RemoveCityCommand", name |-> cmd.name, roads |-> cmd.roads, oid |-> cmd.oid]
      [] cmd.cls = "RenameCityCommand" ->
           [type |-> "RenameCityCommand", old_name |-> cmd.old_name, new_name |-> cmd.new_name]
      [] cmd.cls = "AddRoadCommand" ->
           [type |-> "AddRoadCommand", city1 |-> cmd.city1, city2 |-> cmd.city2, cost |-> cmd.cost]
      [] cmd.cls = "RemoveRoadCommand" ->
           [type |-> "RemoveRoadCommand", city1 |-> cmd.city1, city2 |-> cmd.city2,
            cost |-> cmd.cost]
      [] cmd.cls = "UpdateRoadCommand" ->
           [type |-> "UpdateRoadCommand", city1 |-> cmd.city1, city2 |-> cmd.city2,
            old_cost |-> cmd.old_cost, new_cost |-> cmd.new_cost]
      [] OTHER -> [none |-> TRUE]

\* _serialize_commands
SerializeCommands(commands) == [i \in 1..Len(commands) |-> CommandToDict(commands[i])]

\* The snapshot dict _save_state and save_to_file build
StateDict(g, undo, redo) ==
    [map_state |-> SafeState(g),
     undo_stack |-> SerializeCommands(undo),
     redo_stack |-> SerializeCommands(redo)]

\* lst[:k] with Python's treatment of a negative or too large k
PySliceTo(lst, k) ==
    LET n == Len(lst)
        m == IF k < 0 THEN (IF n + k < 0 THEN 0 ELSE n + k) ELSE (IF k > n THEN n ELSE k)
    IN  SubSeq(lst, 1, m)

\* _save_state without its last line: the snapshot is appended, the cursor stays
SaveStateStaleCursor(g, undo, redo, hist, idx) ==
    LET kept == IF idx < Len(hist) - 1 THEN PySliceTo(hist, idx + 1) ELSE hist
    IN  [history |-> Append(kept, StateDict(g, undo, redo)), current_history_index |-> idx]

\* _save_state without its truncation of the snapshots after the cursor
SaveStateNoTruncate(g, undo, redo, hist, idx) ==
    LET h2 == Append(hist, StateDict(g, undo, redo))
    IN  [history |-> h2, current_history_index |-> Len(h2) - 1]

\* _save_state with its append run twice
SaveStateTwice(g, undo, redo, hist, idx) ==
    LET kept == IF idx < Len(hist) - 1 THEN PySliceTo(hist, idx + 1) ELSE hist
        h2 == Append(Append(kept, StateDict(g, undo, redo)), StateDict(g, undo, redo))
    IN  [history |-> h2, current_history_index |-> Len(h2) - 1]

\* _save_state: truncate after the cursor, append the snapshot, move the cursor
SaveState(g, undo, redo, hist, idx) ==
    LET kept == IF idx < Len(hist) - 1 THEN PySliceTo(hist, idx + 1) ELSE hist
        h2 == Append(kept, StateDict(g, undo, redo))
    IN  [history |-> h2, current_history_index |-> Len(h2) - 1]

\* A mutation of the roads list of command cmd, seen through every snapshot
\* record that holds the same list object.
ShareRoads(hist, cmd) ==
    LET Fix(rec) == IF "oid" \in DOMAIN rec /\ "oid" \in DOMAIN cmd /\ rec.oid = cmd.oid
                    THEN [rec EXCEPT !.roads = cmd.roads] ELSE rec
        FixAll(recs) == [k \in 1..Len(recs) |-> Fix(recs[k])]
    IN  [i \in 1..Len(hist) |->
            [hist[i] EXCEPT !.undo_stack = FixAll(hist[i].undo_stack),
                            !.redo_stack = FixAll(hist[i].redo_stack)]]

\* The oids held by the stacks and by the snapshots
OidsOf(recs) == {recs[k].oid : k \in {j \in 1..Len(recs) : "oid" \in DOMAIN recs[j]}}
UsedOids ==
    OidsOf(undo_stack) \cup OidsOf(redo_stack)
    \cup UNION {OidsOf(history[i].undo_stack) \cup OidsOf(history[i].redo_stack) :
                    i \in 1..Len(history)}

\* The identity of a list object created by a command constructor
FreshOid ==
    LET n == CHOOSE k \in 1..(Cardinality(UsedOids) + 1) :
                 /\ <<0, 0, 0, k>> \notin UsedOids
                 /\ \A j \in 1..(k - 1) : <<0, 0, 0, j>> \in UsedOids
    IN  <<0, 0, 0, n>>

\* The commands a caller constructs
NewCommands ==
    {AddCityCommand(n) : n \in Names}
    \cup {RemoveCityCommand(n, <<>>, FreshOid) : n \in Names}
    \cup {RenameCityCommand(o, n) : o \in RenameNames, n \in RenameNames}
    \cup {AddRoadCommand(a, b, c) : a \in Names, b \in Names, c \in Costs}
    \cup {RemoveRoadCommand(a, b, c) : a \in Names, b \in Names, c \in Costs}
    \cup {UpdateRoadCommand(a, b, c, d) : a \in Names, b \in Names, c \in Costs, d \in Costs}

Fields == [cities |-> cities, undo_stack |-> undo_stack, redo_stack |-> redo_stack,
           history |-> history, current_history_index |-> current_history_index]

Called(op, res) == [op |-> op, res |-> res]

\* The record of an execute_command(command) call that returned True: the command
\* as executed and the graph before the call
CalledExecute(cmd) ==
    [op |-> "execute_command", res |-> "true", cmd |-> cmd, before |-> cities]

\* The record of an undo() call.  after_execute: the call before it was an
\* execute_command that returned True; after_redo: the call before it was a
\* redo that returned True; before is then the graph before that call
CalledUndo(res) ==
    LET follows == last.op = "execute_command" /\ last.res = "true"
        redone == last.op = "redo" /\ last.res = "true"
    IN  [op |-> "undo", res |-> res, after_execute |-> follows, after_redo |-> redone,
         before |-> IF follows \/ redone THEN last.before ELSE cities]

\* The record of a redo() call.  after_undone_execute: the two calls before it
\* were an execute_command and an undo that both returned True; executed is then
\* the graph right after that execute_command; before is the graph before the
\* redo
CalledRedo(res) ==
    LET follows == last.op = "undo" /\ last.res = "true" /\ last.after_execute
    IN  [op |-> "redo", res |-> res, after_undone_execute |-> follows,
         executed |-> IF follows THEN pre.cities ELSE cities,
         before |-> cities]

\* The record of a load_from_file call; own_save: the file is the one
\* save_to_file wrote; flat: the file is a flat map of cities, as written before
\* files had a history; parsed: json.load read the file
CalledLoad(res, doc) ==
    [op |-> "load_from_file", res |-> res, own_save |-> (doc.parses /\ doc = file),
     flat |-> "top" \in DOMAIN doc, parsed |-> doc.parses]

\* The maps a manager is constructed over: the empty CityMap(), and the one on
\* which add_city("A"), add_city("B"), add_road("A","B",1), add_road("A","B",2)
\* were called
TwoRoads ==
    add_road(add_road(add_city(add_city(EmptyMap, "A").cities, "B").cities,
                      "A", "B", 1).cities, "A", "B", 2).cities
InitialMaps == {EmptyMap, TwoRoads}

\* CommandManager(city_map): empty stacks, one snapshot of the map
Init ==
    /\ cities \in InitialMaps
    /\ undo_stack = <<>>
    /\ redo_stack = <<>>
    /\ history = <<StateDict(cities, <<>>, <<>>)>>
    /\ current_history_index = 0
    /\ file = [parses |-> FALSE]
    /\ calls = 0
    /\ last = Called("init", "true")
    /\ pre = [cities |-> cities, undo_stack |-> <<>>, redo_stack |-> <<>>,
              history |-> <<>>, current_history_index |-> -1]
    /\ SimIdle

\* The bookkeeping of every call
Note ==
    /\ pre' = Fields
    /\ UNCHANGED simvars
    /\ calls' = IF <<cities', undo_stack', redo_stack', history', current_history_index', file'>>
                    = <<cities, undo_stack, redo_stack, history, current_history_index, file>>
                 THEN calls ELSE calls + 1

\* execute_command without its redo_stack.clear()
KeptRedo(redo) == redo

\* self.redo_stack.clear() in execute_command
ClearedRedo(redo) == <<>>

\* execute_command(command)
ExecuteCommand(command) ==
    /\ calls < MaxCalls
    /\ LET r == Execute(command, cities)
       IN  /\ cities' = r.cities
           /\ IF r.res = "true"
              THEN LET s == SaveState(r.cities, Append(undo_stack, r.cmd),
                                      ClearedRedo(redo_stack),
                                      ShareRoads(history, r.cmd), current_history_index)
                   IN  /\ undo_stack' = Append(undo_stack, r.cmd)
                       /\ redo_stack' = ClearedRedo(redo_stack)
                       /\ history' = s.history
                       /\ current_history_index' = s.current_history_index
                       /\ last' = CalledExecute(r.cmd)
              ELSE /\ UNCHANGED <<undo_stack, redo_stack, history, current_history_index>>
                   /\ last' = Called("execute_command", r.res)
    /\ UNCHANGED file
    /\ Note

\* undo() without its check for an empty stack: list.pop raises IndexError
UndoUnguarded ==
    /\ calls < MaxCalls
    /\ IF undo_stack = <<>>
       THEN /\ UNCHANGED <<cities, undo_stack, redo_stack, history, current_history_index>>
            /\ last' = CalledUndo("raise")
       ELSE LET command == undo_stack[Len(undo_stack)]
                popped == SubSeq(undo_stack, 1, Len(undo_stack) - 1)
                r == UndoCmd(command, cities)
            IN  /\ cities' = r.cities
                /\ undo_stack' = popped
                /\ last' = CalledUndo(r.res)
                /\ IF r.res = "true"
                   THEN LET s == SaveState(r.cities, popped, Append(redo_stack, command),
                                           history, current_history_index)
                        IN  /\ redo_stack' = Append(redo_stack, command)
                            /\ history' = s.history
                            /\ current_history_index' = s.current_history_index
                   ELSE UNCHANGED <<redo_stack, history, current_history_index>>
    /\ UNCHANGED file
    /\ Note

\* undo()
Undo ==
    /\ calls < MaxCalls
    /\ IF undo_stack = <<>>
       THEN /\ UNCHANGED <<cities, undo_stack, redo_stack, history, current_history_index>>
            /\ last' = CalledUndo("false")
       ELSE LET command == undo_stack[Len(undo_stack)]
                popped == SubSeq(undo_stack, 1, Len(undo_stack) - 1)
                r == UndoCmd(command, cities)
            IN  /\ cities' = r.cities
                /\ undo_stack' = popped
                /\ last' = CalledUndo(r.res)
                /\ IF r.res = "true"
                   THEN LET s == SaveState(r.cities, popped, Append(redo_stack, command),
                                           history, current_history_index)
                        IN  /\ redo_stack' = Append(redo_stack, command)
                            /\ history' = s.history
                            /\ current_history_index' = s.current_history_index
                   ELSE UNCHANGED <<redo_stack, history, current_history_index>>
    /\ UNCHANGED file
    /\ Note

\* redo()
Redo ==
    /\ calls < MaxCalls
    /\ IF redo_stack = <<>>
       THEN /\ UNCHANGED <<cities, undo_stack, redo_stack, history, current_history_index>>
            /\ last' = CalledRedo("false")
       ELSE LET command == redo_stack[Len(redo_stack)]
                popped == SubSeq(redo_stack, 1, Len(redo_stack) - 1)
                r == Execute(command, cities)
            IN  /\ cities' = r.cities
                /\ redo_stack' = popped
                /\ last' = CalledRedo(r.res)
                /\ IF r.res = "true"
                   THEN LET s == SaveState(r.cities, Append(undo_stack, r.cmd), popped,
                                           ShareRoads(history, r.cmd), current_history_index)
                        IN  /\ undo_stack' = Append(undo_stack, r.cmd)
                            /\ history' = s.history
                            /\ current_history_index' = s.current_history_index
                   ELSE UNCHANGED <<undo_stack, history, current_history_index>>
    /\ UNCHANGED file
    /\ Note

\* ------------------------------------------------------------------ documents
\* A parsed JSON document.  An object is a record whose fields are the keys the
\* code reads; the objects the code iterates (the city mapping, a neighbour
\* mapping) are sequences of [key, val] in file order.  A neighbour mapping is
\* [isDict |-> TRUE, items |-> ...], any other JSON value there [isDict |-> FALSE];
\* a cost list is [isList |-> TRUE, v |-> ...], a bare cost [isList |-> FALSE, n |-> ...].
\* A versioned map_state has the fields version and cities, a legacy one the
\* field top (its top-level items, which are the cities).

\* What json.dump writes for a snapshot: a list object's identity is not written
JsonRecord(rec) ==
    IF "oid" \in DOMAIN rec
    THEN [type |-> rec.type, name |-> rec.name, roads |-> rec.roads]
    ELSE rec
JsonEntry(e) ==
    [map_state |-> e.map_state,
     undo_stack |-> [k \in 1..Len(e.undo_stack) |-> JsonRecord(e.undo_stack[k])],
     redo_stack |-> [k \in 1..Len(e.redo_stack) |-> JsonRecord(e.redo_stack[k])]]

\* What json.load builds for the history of document number gen: every roads
\* list of every record is a list object of its own
ParsedRecord(rec, gen, i, s, k) ==
    IF "roads" \in DOMAIN rec
    THEN [x \in (DOMAIN rec) \cup {"oid"} |-> IF x = "oid" THEN <<gen, i, s, k>> ELSE rec[x]]
    ELSE rec
ParsedHistory(h, gen) ==
    [i \in 1..Len(h) |->
        [x \in DOMAIN h[i] |->
            CASE x = "undo_stack" ->
                   [k \in 1..Len(h[i].undo_stack) |-> ParsedRecord(h[i].undo_stack[k], gen, i, 1, k)]
              [] x = "redo_stack" ->
                   [k \in 1..Len(h[i].redo_stack) |-> ParsedRecord(h[i].redo_stack[k], gen, i, 2, k)]
              [] OTHER -> h[i][x]]]

\* The costs stored for one neighbour: list(costs) or [costs]
CostList(val) ==
    IF "isList" \in DOMAIN val
    THEN IF val.isList THEN val.v ELSE <<val.n>>
    ELSE <<val>>                                  \* [costs], costs not a list

\* The inner loop of from_dict over neighbors.items()
RECURSIVE NeighbourMap(_, _)
NeighbourMap(acc, items) ==
    IF items = <<>> THEN acc
    ELSE NeighbourMap(Put(acc, Head(items).key, CostList(Head(items).val)), Tail(items))

\* The outer loop of from_dict; strict is the '1.2' branch, where a neighbours
\* value without .items() raises after the city got its empty dict
RECURSIVE LoadCities(_, _, _)
LoadCities(acc, items, strict) ==
    IF items = <<>> THEN Ret("true", acc)
    ELSE LET it == Head(items)
             acc1 == Put(acc, it.key, EmptyMap)
         IN  IF it.val.isDict
             THEN LoadCities(Put(acc, it.key, NeighbourMap(EmptyMap, it.val.items)),
                             Tail(items), strict)
             ELSE IF strict THEN Ret("raise", acc1)                  \* AttributeError
             ELSE LoadCities(acc1, Tail(items), strict)

\* CityMap.from_dict(data) on the graph g
from_dict(g, data) ==
    IF ~data.isDict THEN Ret("raise", g)                             \* ValueError
    ELSE LET version == IF "version" \in DOMAIN data THEN data.version ELSE "1.0"
         IN  IF version = "1.2"
             THEN LoadCities(EmptyMap,
                             IF "cities" \in DOMAIN data THEN data.cities ELSE <<>>, TRUE)
             ELSE LoadCities(EmptyMap,
                             IF "top" \in DOMAIN data THEN data.top ELSE <<>>, FALSE)

\* _deserialize_commands without its RemoveCityCommand branch
CommandOfNoRemoveCity(d, oid) ==
    LET has(f) == f \in DOMAIN d
    IN  IF ~has("type") THEN <<>>
        ELSE CASE d.type = "AddCityCommand" ->
                    IF has("name") THEN <<AddCityCommand(d.name)>> ELSE <<>>
               [] d.type = "RenameCityCommand" ->
                    IF has("old_name") /\ has("new_name")
                    THEN <<RenameCityCommand(d.old_name, d.new_name)>> ELSE <<>>
               [] d.type = "AddRoadCommand" ->
                    IF has("city1") /\ has("city2") /\ has("cost")
                    THEN <<AddRoadCommand(d.city1, d.city2, d.cost)>> ELSE <<>>
               [] d.type = "RemoveRoadCommand" ->
                    IF has("city1") /\ has("city2") /\ has("cost")
                    THEN <<RemoveRoadCommand(d.city1, d.city2, d.cost)>> ELSE <<>>
               [] d.type = "UpdateRoadCommand" ->
                    IF has("city1") /\ has("city2") /\ has("old_cost") /\ has("new_cost")
                    THEN <<UpdateRoadCommand(d.city1, d.city2, d.old_cost, d.new_cost)>>
                    ELSE <<>>
               [] OTHER -> <<>>

\* One record of _deserialize_commands: the command in a one-element list, or the
\* empty list for an unknown tag or a missing key
CommandOf(d, oid) ==
    LET has(f) == f \in DOMAIN d
    IN  IF ~has("type") THEN <<>>
        ELSE CASE d.type = "AddCityCommand" ->
                    IF has("name") THEN <<AddCityCommand(d.name)>> ELSE <<>>
               [] d.type = "RemoveCityCommand" ->
                    IF has("name")
                    THEN <<RemoveCityCommand(d.name, IF has("roads") THEN d.roads ELSE <<>>, oid)>>
                    ELSE <<>>
               [] d.type = "RenameCityCommand" ->
                    IF has("old_name") /\ has("new_name")
                    THEN <<RenameCityCommand(d.old_name, d.new_name)>> ELSE <<>>
               [] d.type = "AddRoadCommand" ->
                    IF has("city1") /\ has("city2") /\ has("cost")
                    THEN <<AddRoadCommand(d.city1, d.city2, d.cost)>> ELSE <<>>
               [] d.type = "RemoveRoadCommand" ->
                    IF has("city1") /\ has("city2") /\ has("cost")
                    THEN <<RemoveRoadCommand(d.city1, d.city2, d.cost)>> ELSE <<>>
               [] d.type = "UpdateRoadCommand" ->
                    IF has("city1") /\ has("city2") /\ has("old_cost") /\ has("new_cost")
                    THEN <<UpdateRoadCommand(d.city1, d.city2, d.old_cost, d.new_cost)>>
                    ELSE <<>>
               [] OTHER -> <<>>

\* _deserialize_commands giving up at the first record it cannot rebuild
RECURSIVE DeserializeUntilUnknown(_, _, _, _, _)
DeserializeUntilUnknown(commands_data, k, gen, i, s) ==
    IF k > Len(commands_data) THEN <<>>
    ELSE LET c == CommandOf(commands_data[k], <<gen, i, s, k>>)
         IN  IF c = <<>> THEN <<>>
             ELSE c \o DeserializeUntilUnknown(commands_data, k + 1, gen, i, s)

\* _deserialize_commands over the records commands_data[k..]; the roads list of
\* record k of stack s of entry i of document gen is <<gen, i, s, k>>
RECURSIVE DeserializeFrom(_, _, _, _, _)
DeserializeFrom(commands_data, k, gen, i, s) ==
    IF k > Len(commands_data) THEN <<>>
    ELSE CommandOf(commands_data[k], <<gen, i, s, k>>)
         \o DeserializeFrom(commands_data, k + 1, gen, i, s)

DeserializeCommands(commands_data, gen, i, s) == DeserializeFrom(commands_data, 1, gen, i, s)

\* The document save_to_file writes
SavedDocument(g, undo, redo, hist, idx) ==
    [parses |-> TRUE,
     history |-> <<JsonEntry(StateDict(g, undo, redo))>>,
     current_index |-> 0]

\* save_to_file(filename)
SaveToFile ==
    /\ calls < MaxCalls
    /\ file' = SavedDocument(cities, undo_stack, redo_stack, history, current_history_index)
    /\ last' = Called("save_to_file", "true")
    /\ UNCHANGED <<cities, undo_stack, redo_stack, history, current_history_index>>
    /\ Note

\* The 1-based position of lst[i] for a Python index i, 0 when i is out of range
PyPos(lst, i) ==
    IF 0 <= i /\ i < Len(lst) THEN i + 1
    ELSE IF i < 0 /\ -i <= Len(lst) THEN Len(lst) + i + 1
    ELSE 0

\* The outcome of load_from_file on the parsed document data
Loaded(data, gen) ==
    LET h == IF "history" \in DOMAIN data THEN ParsedHistory(data.history, gen) ELSE <<>>
        idx == IF "current_index" \in DOMAIN data THEN data.current_index ELSE 0
        pos == PyPos(h, idx)
        state == h[pos]
        map_state == IF "map_state" \in DOMAIN state THEN state.map_state
                     ELSE [isDict |-> TRUE, top |-> <<>>]
        m == from_dict(cities, map_state)
        keep == [res |-> "false", cities |-> cities, undo_stack |-> undo_stack,
                 redo_stack |-> redo_stack, history |-> h, current_history_index |-> idx]
    IN  IF h = <<>> THEN keep
        ELSE IF pos = 0 THEN keep                                    \* IndexError
        ELSE IF m.res = "raise" THEN [keep EXCEPT !.cities = m.cities]
        ELSE [res |-> "true", cities |-> m.cities,
              undo_stack |-> DeserializeCommands(
                  IF "undo_stack" \in DOMAIN state THEN state.undo_stack ELSE <<>>, gen, pos, 1),
              redo_stack |-> DeserializeCommands(
                  IF "redo_stack" \in DOMAIN state THEN state.redo_stack ELSE <<>>, gen, pos, 2),
              history |-> h, current_history_index |-> idx]

\* load_from_file(filename), the file holding the document doc
LoadFromFile(doc) ==
    /\ calls < MaxCalls
    /\ IF ~doc.parses
       THEN /\ UNCHANGED <<cities, undo_stack, redo_stack, history, current_history_index>>
            /\ last' = CalledLoad("false", doc)
       ELSE LET r == Loaded(doc, calls + 1)
            IN  /\ cities' = r.cities
                /\ undo_stack' = r.undo_stack
                /\ redo_stack' = r.redo_stack
                /\ history' = r.history
                /\ current_history_index' = r.current_history_index
                /\ last' = CalledLoad(r.res, doc)
    /\ UNCHANGED file
    /\ Note

\* ------------------------------------------------------------------ files on disk
JDict(items) == [isDict |-> TRUE, items |-> items]
JList(v) == [isList |-> TRUE, v |-> v]
JNum(n) == [isList |-> FALSE, n |-> n]
KV(k, v) == [key |-> k, val |-> v]
MapState12(cs) == [isDict |-> TRUE, version |-> "1.2", cities |-> cs]
Entry(m, undo, redo) == [map_state |-> m, undo_stack |-> undo, redo_stack |-> redo]

\* A-B joined by the roads [1, 2], written in both directions
RoadsAB(costs) ==
    MapState12(<<KV("A", JDict(<<KV("B", JList(costs))>>)),
                 KV("B", JDict(<<KV("A", JList(costs))>>))>>)

\* not JSON, or no such file
DocUnparseable == [parses |-> FALSE]
\* {} : no history key
DocNoHistory == [parses |-> TRUE]
\* {"history": [], "current_index": 0}
DocEmptyHistory == [parses |-> TRUE, history |-> <<>>, current_index |-> 0]
\* one snapshot, cursor 2
DocBadIndex ==
    [parses |-> TRUE, history |-> <<Entry(RoadsAB(<<1, 2>>), <<>>, <<>>)>>, current_index |-> 2]
\* "map_state": [] 
DocBadMapState ==
    [parses |-> TRUE, history |-> <<Entry([isDict |-> FALSE], <<>>, <<>>)>>, current_index |-> 0]
\* "cities": {"B": {}, "A": 7} under version 1.2
DocBadNeighbours ==
    [parses |-> TRUE,
     history |-> <<Entry(MapState12(<<KV("B", JDict(<<>>)), KV("A", [isDict |-> FALSE])>>),
                         <<>>, <<>>)>>,
     current_index |-> 0]
\* the legacy document {"A": {"B": 5}} as map_state
DocLegacy ==
    [parses |-> TRUE,
     history |-> <<Entry([isDict |-> TRUE, top |-> <<KV("A", JDict(<<KV("B", JNum(5))>>))>>],
                         <<>>, <<>>)>>,
     current_index |-> 0]
\* the file {"A": {"B": 5}}: a flat map, no history key
DocLegacyFile ==
    [parses |-> TRUE, top |-> <<KV("A", JDict(<<KV("B", JNum(5))>>))>>]
\* one snapshot of A-B [1, 2] whose stacks hold records with the tags
\* PaintCityCommand and MergeCitiesCommand among records with known tags
DocUnknownTags ==
    LET addA == [type |-> "AddCityCommand", name |-> "A"]
        paint == [type |-> "PaintCityCommand", name |-> "A"]
        add2 == [type |-> "AddRoadCommand", city1 |-> "A", city2 |-> "B", cost |-> 2]
        merge == [type |-> "MergeCitiesCommand", city1 |-> "A", city2 |-> "B"]
        rem1 == [type |-> "RemoveRoadCommand", city1 |-> "A", city2 |-> "B", cost |-> 1]
    IN  [parses |-> TRUE,
         history |-> <<Entry(RoadsAB(<<1, 2>>), <<addA, paint, add2>>, <<merge, rem1>>)>>,
         current_index |-> 0]
\* a five-snapshot timeline with the cursor on the fourth: A-B [1,2], then
\* AddRoad(A,B,1) executed, RemoveCity(B) executed, and both undone
DocTimeline ==
    LET add == [type |-> "AddRoadCommand", city1 |-> "A", city2 |-> "B", cost |-> 1]
        rem == [type |-> "RemoveCityCommand", name |-> "B",
                roads |-> << <<"B", "A", <<1, 2, 1>> >> >>]
    IN  [parses |-> TRUE,
         history |-> <<Entry(RoadsAB(<<1, 2>>), <<>>, <<>>),
                       Entry(RoadsAB(<<1, 2, 1>>), <<add>>, <<>>),
                       Entry(MapState12(<<KV("A", JDict(<<>>))>>), <<add, rem>>, <<>>),
                       Entry(RoadsAB(<<1, 2, 1>>), <<add>>, <<rem>>),
                       Entry(RoadsAB(<<2, 1>>), <<>>, <<rem, add>>)>>,
         current_index |-> 3]

Documents ==
    {DocUnparseable, DocNoHistory, DocEmptyHistory, DocBadIndex, DocBadMapState,
     DocBadNeighbours, DocLegacy, DocLegacyFile, DocUnknownTags, DocTimeline}

Next ==
    \/ \E command \in NewCommands : ExecuteCommand(command)
    \/ Undo
    \/ Redo
    \/ SaveToFile
    \/ \E doc \in Documents \cup {file} : LoadFromFile(doc)

Spec == Init /\ [][Next]_vars

\* ------------------------------------------------------------------ observations
\* The costs stored under a -> b, none when a is no city or b no key of a
CostsFrom(g, a, b) == IF a \in DOMAIN g /\ b \in DOMAIN g[a] THEN g[a][b] ELSE <<>>

\* Every name the graph mentions, as a city or as a neighbour key
Mentioned(g) == (DOMAIN g) \cup UNION {DOMAIN g[c] : c \in DOMAIN g}

\* l1 and l2 hold the same costs the same number of times
SameMultiset(l1, l2) ==
    /\ Len(l1) = Len(l2)
    /\ \A i \in 1..Len(l1) :
          Cardinality({j \in 1..Len(l1) : l1[j] = l1[i]})
          = Cardinality({j \in 1..Len(l2) : l2[j] = l1[i]})

Symmetric(g) ==
    \A a \in Mentioned(g), b \in Mentioned(g) :
        SameMultiset(CostsFrom(g, a, b), CostsFrom(g, b, a))

IsExecuted == last.op = "execute_command" /\ last.res = "true"
IsFailedExecute == last.op = "execute_command" /\ last.res # "true"

\* ------------------------------------------------------------------ claims

\* C1: after any sequence of graph-store operations, commands, undo, redo and
\* loads, the costs stored under A -> B and under B -> A are the same multiset,
\* for every A and B.
C1_SymmetryInvariant == Symmetric(cities)

\* C2: undo() called right after an execute_command(c) that returned True returns
\* True and leaves the graph, cost lists with their order included, exactly as it
\* was before execute_command(c).
C2_UndoInverseLaw ==
    (last.op = "undo" /\ last.after_execute) =>
        (last.res = "true" /\ cities = last.before)

\* C3: after execute_command(c); undo(); redo(), with the first two returning
\* True, redo() returned True and the graph is exactly the graph right after
\* execute_command(c).
C3_RedoInverseLaw ==
    (last.op = "redo" /\ last.after_undone_execute) =>
        (last.res = "true" /\ cities = last.executed)

\* C4: whenever execute_command returned True the redo stack is empty, whatever
\* it held before the call.
C4_NewEditInvalidatesRedo == IsExecuted => redo_stack = <<>>

\* C4 witness: an execute_command returned True while the redo stack held a
\* previously undone command.
C4_Witness == IsExecuted /\ pre.redo_stack # <<>>

\* C5: whenever execute_command(c) did not succeed, the graph, both stacks, the
\* timeline and the cursor are exactly as before the call.
C5_FailedExecuteUnchanged == IsFailedExecute => Fields = pre

\* C6: whenever load_from_file returned False, the graph, both stacks, the
\* timeline and the cursor are exactly as before the call.
C6_FailedLoadUnchanged ==
    (last.op = "load_from_file" /\ last.res = "false") => Fields = pre

\* The undirected roads of g: the two endpoints and the cost list
RoadSet(g) ==
    {<<{p[1], p[2]}, g[p[1]][p[2]]>> :
        p \in {q \in (DOMAIN g) \X Mentioned(g) : q[2] \in DOMAIN g[q[1]]}}

\* The engine that load_from_file leaves when it reads, right now, the document
\* that save_to_file would write right now
Reloaded ==
    Loaded(SavedDocument(cities, undo_stack, redo_stack, history, current_history_index),
           calls + 1)

\* C7: saving an engine and loading the saved document succeeds and yields the
\* same nodes, the same undirected roads with the same cost lists, and undo and
\* redo stacks of the same sizes.
C7_SaveLoadRoundTrip ==
    /\ Reloaded.res = "true"
    /\ DOMAIN Reloaded.cities = DOMAIN cities
    /\ RoadSet(Reloaded.cities) = RoadSet(cities)
    /\ Len(Reloaded.undo_stack) = Len(undo_stack)
    /\ Len(Reloaded.redo_stack) = Len(redo_stack)

\* C7 witness: the engine has just loaded the document it saved, and holds
\* roads, an undo stack and a redo stack.
C7_Witness ==
    /\ last.op = "load_from_file" /\ last.own_save /\ last.res = "true"
    /\ RoadSet(cities) # {}
    /\ undo_stack # <<>>
    /\ redo_stack # <<>>

\* C8: the document written by save holds one entry per snapshot of the
\* timeline, in order, and its cursor field is the engine's cursor.
C8_SaveCarriesTimeline ==
    last.op = "save_to_file" =>
        /\ Len(file.history) = Len(history)
        /\ \A i \in 1..Len(file.history) :
              i <= Len(history) => file.history[i] = JsonEntry(history[i])
        /\ file.current_index = current_history_index

\* The number of snapshots the last call kept from the timeline it found
Kept ==
    LET n == IF last.res = "true" THEN Len(history) - 1 ELSE Len(history)
    IN  IF n < Len(pre.history) THEN n ELSE Len(pre.history)

\* C9: a snapshot, once appended, is not changed by a later execute_command,
\* undo or redo: every snapshot the call kept records what it recorded before.
C9_SnapshotsImmutable ==
    last.op \in {"execute_command", "undo", "redo"} =>
        \A i \in 1..Kept : history[i] = pre.history[i]

\* s is t with elements taken off its end
IsPrefix(s, t) == Len(s) <= Len(t) /\ SubSeq(t, 1, Len(s)) = s

\* The graph a snapshot's map_state spells out
GraphOf(m) ==
    LET City(i) == m.cities[i]
        Road(i, j) == City(i).val.items[j]
    IN  [c \in {City(i).key : i \in 1..Len(m.cities)} |->
            LET i == CHOOSE k \in 1..Len(m.cities) : City(k).key = c
            IN  [n \in {Road(i, j).key : j \in 1..Len(City(i).val.items)} |->
                    LET j == CHOOSE k \in 1..Len(City(i).val.items) : Road(i, k).key = n
                    IN  Road(i, j).val.v]]

\* The record rec spells out the command cmd: its class as the tag, and its
\* attributes
Records(rec, cmd) ==
    /\ rec.type = cmd.cls
    /\ (DOMAIN rec) \ {"type", "oid"} = (DOMAIN cmd) \ {"cls", "oid"}
    /\ \A f \in (DOMAIN cmd) \ {"cls", "oid"} : rec[f] = cmd[f]

RecordsAll(recs, cmds) ==
    Len(recs) = Len(cmds) /\ \A k \in 1..Len(cmds) : Records(recs[k], cmds[k])

\* C10: whenever execute_command(c) returned True, c is the new top of the undo
\* stack, which grew by one; one snapshot was appended to the timeline, it
\* records the graph and the stacks as they are after the call, and the cursor
\* is its index.
C10_ExecuteTransition ==
    IsExecuted =>
        /\ undo_stack = Append(pre.undo_stack, last.cmd)
        /\ history # <<>>
        /\ IsPrefix(SubSeq(history, 1, Len(history) - 1), pre.history)
        /\ (pre.current_history_index = Len(pre.history) - 1
               => Len(history) = Len(pre.history) + 1)
        /\ LET snap == history[Len(history)]
           IN  /\ snap.map_state.version = "1.2"
               /\ GraphOf(snap.map_state) = cities
               /\ RecordsAll(snap.undo_stack, undo_stack)
               /\ RecordsAll(snap.redo_stack, redo_stack)
        /\ current_history_index = Len(history) - 1

\* C10 witness: execute_command returned True for a RemoveCityCommand that
\* captured roads, on an engine that had commands on both stacks.
C10_Witness ==
    /\ IsExecuted
    /\ last.cmd.cls = "RemoveCityCommand" /\ last.cmd.roads # <<>>
    /\ pre.undo_stack # <<>>
    /\ pre.redo_stack # <<>>

\* c1 and c2 are one command object: the same class and attributes; the roads a
\* RemoveCityCommand has captured so far may differ
SameCommand(c1, c2) ==
    /\ DOMAIN c1 = DOMAIN c2
    /\ \A f \in (DOMAIN c1) \ {"roads"} : c1[f] = c2[f]

\* The last call appended one snapshot to the snapshots it kept, and that
\* snapshot spells out the graph and the stacks as they are now
OneSnapshotAppended ==
    /\ history # <<>>
    /\ Len(history) - 1 <= Len(pre.history)
    /\ (pre.current_history_index = Len(pre.history) - 1
           => Len(history) = Len(pre.history) + 1)
    /\ LET snap == history[Len(history)]
       IN  /\ GraphOf(snap.map_state) = cities
           /\ RecordsAll(snap.undo_stack, undo_stack)
           /\ RecordsAll(snap.redo_stack, redo_stack)

\* C11: an undo() that returned True moved the top command of the undo stack to
\* the top of the redo stack, and a redo() that returned True moved the top
\* command of the redo stack to the top of the undo stack; the other entries of
\* both stacks are as before, in order, the two sizes add up to what they did,
\* and one snapshot was appended.
C11_UndoRedoTransfer ==
    /\ (last.op = "undo" /\ last.res = "true") =>
          /\ pre.undo_stack # <<>>
          /\ undo_stack = SubSeq(pre.undo_stack, 1, Len(pre.undo_stack) - 1)
          /\ redo_stack = Append(pre.redo_stack, pre.undo_stack[Len(pre.undo_stack)])
          /\ Len(undo_stack) + Len(redo_stack) = Len(pre.undo_stack) + Len(pre.redo_stack)
          /\ OneSnapshotAppended
    /\ (last.op = "redo" /\ last.res = "true") =>
          /\ pre.redo_stack # <<>>
          /\ redo_stack = SubSeq(pre.redo_stack, 1, Len(pre.redo_stack) - 1)
          /\ undo_stack # <<>>
          /\ SubSeq(undo_stack, 1, Len(undo_stack) - 1) = pre.undo_stack
          /\ SameCommand(undo_stack[Len(undo_stack)], pre.redo_stack[Len(pre.redo_stack)])
          /\ Len(undo_stack) + Len(redo_stack) = Len(pre.undo_stack) + Len(pre.redo_stack)
          /\ OneSnapshotAppended

\* C11 witness: a redo() returned True and put a RemoveCityCommand on top of an
\* undo stack that already held a command.
C11_Witness ==
    /\ last.op = "redo" /\ last.res = "true"
    /\ Len(undo_stack) >= 2
    /\ undo_stack[Len(undo_stack)].cls = "RemoveCityCommand"

\* C12: undo() on an empty undo stack and redo() on an empty redo stack return
\* False and leave the graph, both stacks, the timeline and the cursor as they
\* were.
C12_EmptyStackNoOp ==
    /\ (last.op = "undo" /\ pre.undo_stack = <<>>) => (last.res = "false" /\ Fields = pre)
    /\ (last.op = "redo" /\ pre.redo_stack = <<>>) => (last.res = "false" /\ Fields = pre)

\* C12 witness: undo() was called on an empty undo stack while the redo stack
\* held a command and the graph held a road.
C12_Witness ==
    /\ last.op = "undo" /\ pre.undo_stack = <<>>
    /\ pre.redo_stack # <<>>
    /\ RoadSet(pre.cities) # {}

\* The call op popped a command off prestk and the command's operation did not
\* succeed: the call returned False, the stack lost only its top, the other
\* stack, the timeline, the cursor and the graph are as before, and the graph is
\* symmetric
DroppedCleanly(op, stk, other, prestk, preother) ==
    (last.op = op /\ prestk # <<>> /\ last.res # "true") =>
        /\ last.res = "false"
        /\ stk = SubSeq(prestk, 1, Len(prestk) - 1)
        /\ other = preother
        /\ history = pre.history
        /\ current_history_index = pre.current_history_index
        /\ cities = pre.cities
        /\ Symmetric(cities)

\* C13: when undo() (redo()) pops a command whose operation fails, the call
\* returns False, the command is on neither stack, the other stack is unchanged,
\* no snapshot is appended, and the graph is exactly as before the call and
\* symmetric.
C13_InconsistentInverseDropped ==
    /\ DroppedCleanly("undo", undo_stack, redo_stack, pre.undo_stack, pre.redo_stack)
    /\ DroppedCleanly("redo", redo_stack, undo_stack, pre.redo_stack, pre.undo_stack)

\* A call of a graph-store method with its arguments
StoreCalls ==
    [op : {"add_city", "remove_city"}, a : Names]
    \cup [op : {"rename_city"}, a : RenameNames, b : RenameNames]
    \cup [op : {"remove_road_all"}, a : Names, b : Names]
    \cup [op : {"add_road", "remove_road"}, a : Names, b : Names, c : Costs]
    \cup [op : {"update_road_cost"}, a : Names, b : Names, c : Costs, d : Costs]

\* What the call returns on the graph g, and the graph it leaves
StoreResult(g, call) ==
    CASE call.op = "add_city" -> add_city(g, call.a)
      [] call.op = "remove_city" -> remove_city(g, call.a)
      [] call.op = "rename_city" -> rename_city(g, call.a, call.b)
      [] call.op = "add_road" -> add_road(g, call.a, call.b, call.c)
      [] call.op = "remove_road" -> remove_road(g, call.a, call.b, call.c)
      [] call.op = "remove_road_all" -> remove_road_all(g, call.a, call.b)
      [] call.op = "update_road_cost" -> update_road_cost(g, call.a, call.b, call.c, call.d)

\* a or b is no node of g, or no road joins a to b
NoRoad(g, a, b) == a \notin DOMAIN g \/ b \notin DOMAIN g \/ b \notin DOMAIN g[a]

\* The call breaks a constraint on the graph g: a duplicate name, a missing
\* node, a missing road, a cost that is not on the road, an identical rename
ViolatesConstraint(g, call) ==
    CASE call.op = "add_city" -> call.a \in DOMAIN g
      [] call.op = "remove_city" -> call.a \notin DOMAIN g
      [] call.op = "rename_city" -> call.a \notin DOMAIN g \/ call.b \in DOMAIN g \/ call.a = call.b
      [] call.op = "add_road" -> call.a \notin DOMAIN g \/ call.b \notin DOMAIN g
      [] call.op = "remove_road" ->
           NoRoad(g, call.a, call.b) \/ ~InList(g[call.a][call.b], call.c)
      [] call.op = "remove_road_all" -> NoRoad(g, call.a, call.b)
      [] call.op = "update_road_cost" ->
           NoRoad(g, call.a, call.b) \/ ~InList(g[call.a][call.b], call.c)

\* The graph-store call a command's execute makes, and the one its undo begins with
ExecuteCall(cmd) ==
    CASE cmd.cls = "AddCityCommand" -> [op |-> "add_city", a |-> cmd.name]
      [] cmd.cls = "RemoveCityCommand" -> [op |-> "remove_city", a |-> cmd.name]
      [] cmd.cls = "RenameCityCommand" ->
           [op |-> "rename_city", a |-> cmd.old_name, b |-> cmd.new_name]
      [] cmd.cls = "AddRoadCommand" ->
           [op |-> "add_road", a |-> cmd.city1, b |-> cmd.city2, c |-> cmd.cost]
      [] cmd.cls = "RemoveRoadCommand" ->
           [op |-> "remove_road", a |-> cmd.city1, b |-> cmd.city2, c |-> cmd.cost]
      [] cmd.cls = "UpdateRoadCommand" ->
           [op |-> "update_road_cost", a |-> cmd.city1, b |-> cmd.city2,
            c |-> cmd.old_cost, d |-> cmd.new_cost]
UndoCall(cmd) ==
    CASE cmd.cls = "AddCityCommand" -> [op |-> "remove_city", a |-> cmd.name]
      [] cmd.cls = "RemoveCityCommand" -> [op |-> "add_city", a |-> cmd.name]
      [] cmd.cls = "RenameCityCommand" ->
           [op |-> "rename_city", a |-> cmd.new_name, b |-> cmd.old_name]
      [] cmd.cls = "AddRoadCommand" ->
           [op |-> "remove_road", a |-> cmd.city1, b |-> cmd.city2, c |-> cmd.cost]
      [] cmd.cls = "RemoveRoadCommand" ->
           [op |-> "add_road", a |-> cmd.city1, b |-> cmd.city2, c |-> cmd.cost]
      [] cmd.cls = "UpdateRoadCommand" ->
           [op |-> "update_road_cost", a |-> cmd.city1, b |-> cmd.city2,
            c |-> cmd.new_cost, d |-> cmd.old_cost]

\* C14: on the graph of every reachable state, every graph-store call and every
\* command execute and undo that breaks a constraint returns False, and no call
\* raises, equal endpoints included.
C14_ViolationsAreValues ==
    /\ \A call \in StoreCalls :
          /\ StoreResult(cities, call).res # "raise"
          /\ ViolatesConstraint(cities, call) => StoreResult(cities, call).res = "false"
    /\ \A cmd \in NewCommands :
          /\ Execute(cmd, cities).res # "raise"
          /\ UndoCmd(cmd, cities).res # "raise"
          /\ ViolatesConstraint(cities, ExecuteCall(cmd)) => Execute(cmd, cities).res = "false"
          /\ ViolatesConstraint(cities, UndoCall(cmd)) => UndoCmd(cmd, cities).res = "false"

\* The cursor of the state the last call began in stood on a snapshot before the
\* last one
WasMidTimeline ==
    0 <= pre.current_history_index /\ pre.current_history_index < Len(pre.history) - 1

\* C15: whenever execute_command returned True while the cursor stood before
\* the last snapshot, the timeline is the snapshots up to the cursor, unchanged,
\* followed by one new snapshot of the state after the call, and the cursor is
\* the index of that snapshot.
C15_SnapshotTruncation ==
    (IsExecuted /\ WasMidTimeline) =>
        /\ Len(history) = pre.current_history_index + 2
        /\ SubSeq(history, 1, pre.current_history_index + 1)
             = SubSeq(pre.history, 1, pre.current_history_index + 1)
        /\ LET snap == history[Len(history)]
           IN  /\ GraphOf(snap.map_state) = cities
               /\ RecordsAll(snap.undo_stack, undo_stack)
               /\ RecordsAll(snap.redo_stack, redo_stack)
        /\ current_history_index = pre.current_history_index + 1

\* C15 witness: execute_command returned True with the cursor on the fourth of
\* five snapshots.
C15_Witness ==
    /\ IsExecuted /\ WasMidTimeline
    /\ pre.current_history_index = 3
    /\ Len(pre.history) = 5

\* C16: load_from_file on the legacy file {"A": {"B": 5}} returns True, leaves
\* the graph in which A has the one neighbour B with the cost list [5], and
\* leaves both stacks empty.
C16_LegacyLoad ==
    (last.op = "load_from_file" /\ last.flat) =>
        /\ last.res = "true"
        /\ "A" \in DOMAIN cities
        /\ cities["A"] = [n \in {"B"} |-> <<5>>]
        /\ undo_stack = <<>>
        /\ redo_stack = <<>>

\* The tags _deserialize_commands knows
CommandTags ==
    {"AddCityCommand", "RemoveCityCommand", "RenameCityCommand", "AddRoadCommand",
     "RemoveRoadCommand", "UpdateRoadCommand"}

HasKnownTag(rec) == "type" \in DOMAIN rec /\ rec.type \in CommandTags

\* The records of recs that carry a known tag, in their order
KnownOnly(recs) == SelectSeq(recs, HasKnownTag)

HasUnknownTag(recs) == \E k \in 1..Len(recs) : ~HasKnownTag(recs[k])

\* The snapshot the cursor stands on
CursorEntry == history[PyPos(history, current_history_index)]

\* The last call was a load_from_file that read its file and found a snapshot at
\* the cursor, with stacks in it and a map_state that from_dict accepts
LoadedAnEntry ==
    /\ last.op = "load_from_file" /\ last.parsed
    /\ PyPos(history, current_history_index) # 0
    /\ {"map_state", "undo_stack", "redo_stack"} \subseteq DOMAIN CursorEntry
    /\ from_dict(EmptyMap, CursorEntry.map_state).res = "true"

\* C17: a load_from_file whose snapshot holds records with unknown tags returns
\* True all the same, and each stack is then the commands of the records with
\* known tags, in the order of the records.
C17_ForwardTolerance ==
    LoadedAnEntry =>
        /\ last.res = "true"
        /\ RecordsAll(KnownOnly(CursorEntry.undo_stack), undo_stack)
        /\ RecordsAll(KnownOnly(CursorEntry.redo_stack), redo_stack)

\* C17 witness: a load_from_file returned True on a snapshot with unknown tags
\* on both stacks, and rebuilt two commands from the three records of its undo
\* stack.
C17_Witness ==
    /\ LoadedAnEntry /\ last.res = "true"
    /\ HasUnknownTag(CursorEntry.undo_stack)
    /\ HasUnknownTag(CursorEntry.redo_stack)
    /\ Len(CursorEntry.undo_stack) = 3
    /\ Len(undo_stack) = 2

\* A graph-store method called on the map directly, not through a command
DirectCall(call) ==
    /\ calls < MaxCalls
    /\ LET r == StoreResult(cities, call)
       IN  /\ cities' = r.cities
           /\ last' = Called(call.op, r.res)
    /\ UNCHANGED <<undo_stack, redo_stack, history, current_history_index, file>>
    /\ Note

\* A graph-store method called on a map that no manager edits, the call noted
\* with its arguments
StoreCall(call) ==
    /\ calls < MaxCalls
    /\ LET r == StoreResult(cities, call)
       IN  /\ cities' = r.cities
           /\ last' = [op |-> call.op, res |-> r.res, call |-> call]
    /\ UNCHANGED <<undo_stack, redo_stack, history, current_history_index, file>>
    /\ Note

\* The graph store alone
NextCalls == \E call \in StoreCalls : StoreCall(call)

SpecCalls == Init /\ [][NextCalls]_vars

\* The engine without files: commands, undo, redo and direct graph-store calls
NextStore ==
    \/ \E command \in NewCommands : ExecuteCommand(command)
    \/ Undo
    \/ Redo
    \/ \E call \in StoreCalls : DirectCall(call)

SpecStore == Init /\ [][NextStore]_vars

\* The cost lists of every two distinct nodes are the same sequence in both
\* directions
PositionsCorrespond(g) ==
    \A a \in Mentioned(g), b \in Mentioned(g) :
        a # b => CostsFrom(g, a, b) = CostsFrom(g, b, a)

\* C18: after any sequence of graph-store calls, made directly or by commands,
\* undo and redo, the cost list under A -> B and the cost list under B -> A are
\* equal as sequences for every two distinct nodes A and B.
C18_PositionCorrespondence == PositionsCorrespond(cities)

\* C18 witness: an undo() returned True and left A-B with two different costs,
\* the larger one first.
C18_Witness ==
    /\ last.op = "undo" /\ last.res = "true"
    /\ CostsFrom(cities, "A", "B") = <<2, 1>>

\* The last call was an undo() right after an execute_command that returned True
\* for a RemoveCityCommand
UndidRemoveCity ==
    /\ last.op = "undo" /\ last.after_execute
    /\ pre.undo_stack # <<>>
    /\ pre.undo_stack[Len(pre.undo_stack)].cls = "RemoveCityCommand"

\* The city the last call's RemoveCityCommand names
RemovedCity == pre.undo_stack[Len(pre.undo_stack)].name

\* C19: undo() right after a successful execute_command(RemoveCityCommand(X))
\* returns True and X is a city again with every neighbour it had, each pair
\* with the cost list it had, in order, in both directions.
C19_RemoveCityUndoRestores ==
    UndidRemoveCity =>
        /\ last.res = "true"
        /\ RemovedCity \in DOMAIN cities
        /\ cities[RemovedCity] = last.before[RemovedCity]
        /\ \A n \in DOMAIN last.before :
              /\ n \in DOMAIN cities
              /\ CostsFrom(cities, n, RemovedCity) = CostsFrom(last.before, n, RemovedCity)

\* The last call was an undo() right after an execute_command that returned True
\* for an AddRoadCommand or a RemoveRoadCommand between two different cities that
\* a road joined already
UndidRoadCommand ==
    /\ last.op = "undo" /\ last.after_execute
    /\ pre.undo_stack # <<>>
    /\ LET cmd == pre.undo_stack[Len(pre.undo_stack)]
       IN  /\ cmd.cls \in {"AddRoadCommand", "RemoveRoadCommand"}
           /\ cmd.city1 # cmd.city2
           /\ CostsFrom(last.before, cmd.city1, cmd.city2) # <<>>

\* C20: an AddRoadCommand or a RemoveRoadCommand executed on an existing road
\* and then undone leaves the cost list of the road, in both directions, the
\* same sequence as before the execute.
C20_AddRemoveRoadInverse ==
    UndidRoadCommand =>
        LET cmd == pre.undo_stack[Len(pre.undo_stack)]
        IN  /\ last.res = "true"
            /\ CostsFrom(cities, cmd.city1, cmd.city2)
                 = CostsFrom(last.before, cmd.city1, cmd.city2)
            /\ CostsFrom(cities, cmd.city2, cmd.city1)
                 = CostsFrom(last.before, cmd.city2, cmd.city1)

\* The last call was the graph-store method op called directly
DirectlyCalled(op) == last.op = op /\ "call" \in DOMAIN last

\* b is a key of a's neighbour map in g
IsNeighbour(g, a, b) == a \in DOMAIN g /\ b \in DOMAIN g[a]

\* g1 has the nodes of g0 and, for every pair of nodes other than {a, b}, the
\* neighbour entries and cost lists of g0
SameExceptPair(g0, g1, a, b) ==
    /\ DOMAIN g1 = DOMAIN g0
    /\ \A x \in DOMAIN g0, y \in Mentioned(g0) \cup Mentioned(g1) :
          {x, y} # {a, b} =>
              /\ IsNeighbour(g1, x, y) <=> IsNeighbour(g0, x, y)
              /\ CostsFrom(g1, x, y) = CostsFrom(g0, x, y)

\* C21: add_road(a, b, cost) returns False and changes nothing when a or b is no
\* node; otherwise it returns True, the a -> b list is what it was with one cost
\* appended, so is the b -> a list (a first road creates both), a cost already
\* on the road is accepted, and no other pair changes.
C21_AddRoadContract ==
    DirectlyCalled("add_road") =>
        LET a == last.call.a
            b == last.call.b
            g0 == pre.cities
        IN  IF a \notin DOMAIN g0 \/ b \notin DOMAIN g0
            THEN last.res = "false" /\ cities = g0
            ELSE /\ last.res = "true"
                 /\ IsNeighbour(cities, a, b) /\ IsNeighbour(cities, b, a)
                 /\ cities[a][b] = Append(CostsFrom(g0, a, b), last.call.c)
                 /\ cities[b][a] = Append(CostsFrom(g0, b, a), last.call.c)
                 /\ SameExceptPair(g0, cities, a, b)

\* C22: remove_road(a, b, cost) on a road that holds the cost returns True and
\* takes the first occurrence of the cost out of the a -> b list and the first
\* occurrence out of the b -> a list; the other costs stay, in order; when that
\* empties the list, b is no neighbour of a and a no neighbour of b any more;
\* no other pair changes.
C22_RemoveRoadContract ==
    (/\ DirectlyCalled("remove_road")
     /\ IsNeighbour(pre.cities, last.call.a, last.call.b)
     /\ InList(pre.cities[last.call.a][last.call.b], last.call.c)) =>
        LET a == last.call.a
            b == last.call.b
            g0 == pre.cities
            left == RemoveFirst(g0[a][b], last.call.c)
        IN  /\ last.res = "true"
            /\ InList(CostsFrom(g0, b, a), last.call.c)
            /\ IF left = <<>>
               THEN ~IsNeighbour(cities, a, b) /\ ~IsNeighbour(cities, b, a)
               ELSE /\ IsNeighbour(cities, a, b) /\ IsNeighbour(cities, b, a)
                    /\ cities[a][b] = left
                    /\ cities[b][a] = RemoveFirst(g0[b][a], last.call.c)
            /\ SameExceptPair(g0, cities, a, b)

\* C23: remove_road(a, b) with no cost returns False and changes nothing when a
\* or b is no node or no road joins them; otherwise it returns True, b is no
\* neighbour of a and a no neighbour of b any more, and no other pair changes.
C23_RemoveAllRoadsContract ==
    DirectlyCalled("remove_road_all") =>
        LET a == last.call.a
            b == last.call.b
            g0 == pre.cities
        IN  IF NoRoad(g0, a, b)
            THEN last.res = "false" /\ cities = g0
            ELSE /\ last.res = "true"
                 /\ ~IsNeighbour(cities, a, b) /\ ~IsNeighbour(cities, b, a)
                 /\ SameExceptPair(g0, cities, a, b)

\* The call update_road_cost(a, b, old, new), made on the graph g0, returned res
\* and left the graph g1 as the contract says: False and no change when a or b
\* is no node, no road joins them or old is not on the road; otherwise True, and
\* both the a -> b list and the b -> a list are what they were with new written
\* at the index of the first occurrence of old, no other pair changed
UpdatedAsContracted(g0, call, res, g1) ==
    LET a == call.a
        b == call.b
    IN  IF NoRoad(g0, a, b) \/ ~InList(g0[a][b], call.c)
        THEN res = "false" /\ g1 = g0
        ELSE LET index == IndexOf(g0[a][b], call.c)
             IN  /\ res = "true"
                 /\ IsNeighbour(g0, b, a) /\ index <= Len(g0[b][a])
                 /\ IsNeighbour(g1, a, b) /\ IsNeighbour(g1, b, a)
                 /\ g1[a][b] = [g0[a][b] EXCEPT ![index] = call.d]
                 /\ g1[b][a] = [g0[b][a] EXCEPT ![index] = call.d]
                 /\ SameExceptPair(g0, g1, a, b)

\* C24: on the graph of every reachable state, update_road_cost(a, b, old, new)
\* returns False and changes nothing when a or b is no node, no road joins them
\* or old is not on the road; otherwise it returns True and replaces the first
\* occurrence of old by new at the same index of the a -> b list and of the
\* b -> a list, leaving the lengths, the other entries and the other pairs.
C24_UpdateRoadCostContract ==
    \A call \in {c \in StoreCalls : c.op = "update_road_cost"} :
        LET r == StoreResult(cities, call)
        IN  UpdatedAsContracted(cities, call, r.res, r.cities)

\* C25: rename_city(old, new) returns False and changes nothing when old is no
\* node or new is a node already (new = old included); otherwise it returns
\* True, old is no node any more, new is one and owns the neighbour map old
\* owned, and every node that had old as a neighbour has new as a neighbour
\* with the same cost list, and old as a neighbour no more.
C25_RenameCityContract ==
    DirectlyCalled("rename_city") =>
        LET old == last.call.a
            new == last.call.b
            g0 == pre.cities
        IN  IF old \notin DOMAIN g0 \/ new \in DOMAIN g0
            THEN last.res = "false" /\ cities = g0
            ELSE /\ last.res = "true"
                 /\ DOMAIN cities = ((DOMAIN g0) \ {old}) \cup {new}
                 /\ cities[new] = g0[old]
                 /\ \A n \in DOMAIN g0 :
                       old \in DOMAIN g0[n] =>
                           /\ IsNeighbour(cities, n, new)
                           /\ cities[n][new] = g0[n][old]
                           /\ ~IsNeighbour(cities, n, old)

\* C26: remove_city(name) returns False and changes nothing when name is no
\* node; otherwise it returns True, name is no node and no neighbour of any
\* node any more, the other nodes are all there, and every entry they hold for
\* a neighbour other than name is as it was.
C26_RemoveCityContract ==
    DirectlyCalled("remove_city") =>
        LET name == last.call.a
            g0 == pre.cities
        IN  IF name \notin DOMAIN g0
            THEN last.res = "false" /\ cities = g0
            ELSE /\ last.res = "true"
                 /\ DOMAIN cities = (DOMAIN g0) \ {name}
                 /\ \A n \in DOMAIN cities :
                       /\ name \notin DOMAIN cities[n]
                       /\ DOMAIN cities[n] = (DOMAIN g0[n]) \ {name}
                       /\ \A m \in DOMAIN cities[n] : cities[n][m] = g0[n][m]

\* C26 witness: remove_city returned True for a city that had a neighbour, and
\* a road that does not touch the city is left.
C26_Witness ==
    /\ DirectlyCalled("remove_city") /\ last.res = "true"
    /\ (DOMAIN pre.cities[last.call.a]) \ {last.call.a} # {}
    /\ RoadSet(cities) # {}

\* ------------------------------------------------------------------ reads
\* A value a read returns is a list of entries.  An entry that carries a cost
\* list also carries of, the place in the store of the list object it holds:
\* <<city1, city2>> when the entry holds the very list stored under
\* city1 -> city2, <<>> when it holds a list of its own.

\* The orders a dict over the keys S can iterate in
Orders(S) ==
    {o \in [1..Cardinality(S) -> S] : \A i, j \in 1..Cardinality(S) : o[i] = o[j] => i = j}

\* get_cities(): list(self.cities.keys())
get_cities(g, order) == [i \in 1..Len(order) |-> [name |-> order[i]]]

\* get_roads_from_city(city): list(self.cities[city].items()); the tuples hold
\* the stored lists
get_roads_from_city(g, city) ==
    IF city \notin DOMAIN g THEN <<>>
    ELSE LET ns == SeqOf(DOMAIN g[city])
         IN  [i \in 1..Len(ns) |->
                 [neighbor |-> ns[i], costs |-> g[city][ns[i]], of |-> <<city, ns[i]>>]]

\* The (city1, city2) pairs in the order of the two loops of get_all_roads
RECURSIVE PairsInOrder(_, _)
PairsInOrder(g, order) ==
    IF order = <<>> THEN <<>>
    ELSE LET city1 == Head(order)
             ns == SeqOf(DOMAIN g[city1])
         IN  [i \in 1..Len(ns) |-> <<city1, ns[i]>>] \o PairsInOrder(g, Tail(order))

\* The set roads that the loops of get_all_roads build
RECURSIVE CollectRoads(_, _)
CollectRoads(roads, pairs) ==
    IF pairs = <<>> THEN roads
    ELSE LET p == Head(pairs)
         IN  IF <<p[2], p[1]>> \notin roads
             THEN CollectRoads(roads \cup {p}, Tail(pairs))
             ELSE CollectRoads(roads, Tail(pairs))

\* get_all_roads without its test for the reverse pair
get_all_roads_both(g, order) ==
    LET pairs == PairsInOrder(g, order)
        rs == SeqOf({pairs[i] : i \in 1..Len(pairs)})
    IN  [i \in 1..Len(rs) |->
            [city1 |-> rs[i][1], city2 |-> rs[i][2], costs |-> g[rs[i][1]][rs[i][2]],
             of |-> rs[i]]]

\* get_all_roads(), the dict iterating its cities in the given order; the
\* tuples hold the stored lists
get_all_roads(g, order) ==
    LET rs == SeqOf(CollectRoads({}, PairsInOrder(g, order)))
    IN  [i \in 1..Len(rs) |->
            [city1 |-> rs[i][1], city2 |-> rs[i][2], costs |-> g[rs[i][1]][rs[i][2]],
             of |-> rs[i]]]

ReadOps == {"get_cities", "get_roads_from_city", "get_all_roads"}

\* A read called on the map: nothing is assigned
Read(op, ret) ==
    /\ calls < MaxCalls
    /\ last' = [op |-> op, res |-> "true", ret |-> ret]
    /\ UNCHANGED <<cities, undo_stack, redo_stack, history, current_history_index, file>>
    /\ Note

GetCities == \E order \in Orders(DOMAIN cities) : Read("get_cities", get_cities(cities, order))
GetRoadsFromCity(city) == Read("get_roads_from_city", get_roads_from_city(cities, city))
GetAllRoads == \E order \in Orders(DOMAIN cities) : Read("get_all_roads", get_all_roads(cities, order))

\* The positions of the list the last call returned, none when it was no read
ReturnedEntries == IF last.op \in ReadOps THEN 1..Len(last.ret) ELSE {}

\* The caller deletes entry i of the list it was returned: the list is the
\* caller's own
DeleteReturnedEntry(i) ==
    /\ calls < MaxCalls
    /\ last.op \in ReadOps
    /\ i \in 1..Len(last.ret)
    /\ last' = [op |-> "delete_returned_entry", res |-> "true", read |-> last.op,
                ret |-> SubSeq(last.ret, 1, i - 1) \o SubSeq(last.ret, i + 1, Len(last.ret))]
    /\ UNCHANGED <<cities, undo_stack, redo_stack, history, current_history_index, file>>
    /\ Note

\* The caller appends cost to the cost list of entry i of the value it was
\* returned: the list object named by of grows, in the entry and wherever else
\* it is held
AppendToReturnedCosts(i, cost) ==
    /\ calls < MaxCalls
    /\ last.op \in ReadOps
    /\ i \in 1..Len(last.ret)
    /\ "costs" \in DOMAIN last.ret[i]
    /\ LET e == last.ret[i]
           grown == Append(e.costs, cost)
       IN  /\ last' = [op |-> "append_to_returned_costs", res |-> "true", read |-> last.op,
                       ret |-> [last.ret EXCEPT ![i] = [e EXCEPT !.costs = grown]]]
           /\ cities' = IF e.of = <<>> THEN cities ELSE SetRoad(cities, e.of[1], e.of[2], grown)
    /\ UNCHANGED <<undo_stack, redo_stack, history, current_history_index, file>>
    /\ Note

\* The graph store with its reads and a caller that mutates what they return
NextReads ==
    \/ \E call \in StoreCalls : StoreCall(call)
    \/ GetCities
    \/ \E city \in Names : GetRoadsFromCity(city)
    \/ GetAllRoads
    \/ \E i \in ReturnedEntries : DeleteReturnedEntry(i)
    \/ \E i \in ReturnedEntries, cost \in Costs : AppendToReturnedCosts(i, cost)

SpecReads == Init /\ [][NextReads]_vars

MutatedReturned == last.op \in {"delete_returned_entry", "append_to_returned_costs"}

\* C27: get_cities, get_roads_from_city and get_all_roads leave the graph as it
\* was, and so does every mutation of a value they returned, a returned cost
\* list included.
C27_ReadsArePure ==
    (last.op \in ReadOps \/ MutatedReturned) => cities = pre.cities

\* The unordered pairs of g joined by a road: {a, b} with b a neighbour of a
AdjacentPairs(g) ==
    {{q[1], q[2]} : q \in {p \in (DOMAIN g) \X Mentioned(g) : IsNeighbour(g, p[1], p[2])}}

\* roads lists every adjacent pair of g once, with the cost list stored for the
\* direction it names, and nothing else
ListsEachPairOnce(g, roads) ==
    /\ \A pair \in AdjacentPairs(g) :
          Cardinality({i \in 1..Len(roads) : {roads[i].city1, roads[i].city2} = pair}) = 1
    /\ \A i \in 1..Len(roads) :
          /\ IsNeighbour(g, roads[i].city1, roads[i].city2)
          /\ roads[i].costs = g[roads[i].city1][roads[i].city2]

\* C28: what get_all_roads returns holds, for every unordered pair {A, B} joined
\* by a road, exactly one entry, (A, B, costs) or (B, A, costs) and never both,
\* with the cost list of the pair, and no entry for a pair that no road joins,
\* whichever of the two cities the dict iterates first.
C28_AllRoadsOncePerPair ==
    last.op = "get_all_roads" => ListsEachPairOnce(cities, last.ret)

\* C28 witness: get_all_roads returned the road between A and B as (B, A, costs)
\* on a graph that stores it in both directions and that holds a second road.
C28_Witness ==
    /\ last.op = "get_all_roads"
    /\ IsNeighbour(cities, "A", "B") /\ IsNeighbour(cities, "B", "A")
    /\ \E i \in 1..Len(last.ret) : last.ret[i].city1 = "B" /\ last.ret[i].city2 = "A"
    /\ Len(last.ret) = 2

\* The last call executed a RemoveCityCommand: an execute_command or a redo that
\* returned True and left the command on top of the undo stack
ExecutedRemoveCity ==
    /\ last.op \in {"execute_command", "redo"} /\ last.res = "true"
    /\ undo_stack # <<>>
    /\ undo_stack[Len(undo_stack)].cls = "RemoveCityCommand"

\* The last call was an undo() of a RemoveCityCommand right after the call that
\* executed it
UndidExecutedRemoveCity ==
    /\ last.op = "undo" /\ (last.after_execute \/ last.after_redo)
    /\ pre.undo_stack # <<>>
    /\ pre.undo_stack[Len(pre.undo_stack)].cls = "RemoveCityCommand"

\* C29: a RemoveCityCommand that an execute_command or a redo has just executed
\* holds the roads the city had right before that execution and no others, and
\* an undo() right after it returns True and gives the city the neighbours and
\* cost lists, in both directions, that it had right before that execution.
C29_RemoveCityCapturesCurrentRoads ==
    /\ ExecutedRemoveCity =>
          LET cmd == undo_stack[Len(undo_stack)]
          IN  cmd.roads = CapturedRoads(pre.cities, cmd.name)
    /\ UndidExecutedRemoveCity =>
          /\ last.res = "true"
          /\ RemovedCity \in DOMAIN cities
          /\ cities[RemovedCity] = last.before[RemovedCity]
          /\ \A n \in DOMAIN last.before :
                /\ n \in DOMAIN cities
                /\ CostsFrom(cities, n, RemovedCity) = CostsFrom(last.before, n, RemovedCity)

\* The map_state m is a version 1.2 mapping of cities to neighbour mappings of
\* cost lists
SpellsGraph(m) ==
    /\ m.isDict /\ "cities" \in DOMAIN m
    /\ \A i \in 1..Len(m.cities) :
          /\ m.cities[i].val.isDict
          /\ \A j \in 1..Len(m.cities[i].val.items) : m.cities[i].val.items[j].val.isList

\* The snapshot snap records the graph g and the stacks undo and redo
Mirrors(snap, g, undo, redo) ==
    /\ {"map_state", "undo_stack", "redo_stack"} \subseteq DOMAIN snap
    /\ SpellsGraph(snap.map_state)
    /\ GraphOf(snap.map_state) = g
    /\ RecordsAll(snap.undo_stack, undo)
    /\ RecordsAll(snap.redo_stack, redo)

\* C30: in every state the cursor is the index of a snapshot of the timeline,
\* and that snapshot records the graph as it is now and the commands that are
\* on the undo stack and on the redo stack now.
C30_CursorSnapshotMirrorsEngine ==
    /\ 0 <= current_history_index /\ current_history_index < Len(history)
    /\ Mirrors(history[current_history_index + 1], cities, undo_stack, redo_stack)

\* The cursor is an index of the timeline
CursorInTimeline(h, idx) == h /= <<>> /\ 0 <= idx /\ idx <= Len(h) - 1

\* The last call was one of execute_command, undo and redo
IsEngineCall == last.op \in {"execute_command", "undo", "redo"}

\* C31: in every reachable state, after any load_from_file of any document too,
\* the timeline is not empty and 0 <= current_history_index <= len(history) - 1;
\* and a call of execute_command, undo or redo that begins with the cursor on
\* the last snapshot ends with it on the last snapshot, the timeline one longer
\* when the call returned true and as long as before when it did not, so that
\* without loads the cursor is len(history) - 1 and the length is 1 plus the
\* number of successful calls.
C31_CursorValidity ==
    /\ CursorInTimeline(history, current_history_index)
    /\ (IsEngineCall /\ pre.current_history_index = Len(pre.history) - 1)
         => /\ current_history_index = Len(history) - 1
            /\ Len(history) = Len(pre.history) + (IF last.res = "true" THEN 1 ELSE 0)

\* ------------------------------------------------------------------ load-free use
\* A road command between two different cities; any city command
DistinctEndpoints(cmd) == "city1" \in DOMAIN cmd => cmd.city1 /= cmd.city2

LoadFreeCommands == {cmd \in NewCommands : DistinctEndpoints(cmd)}

\* The engine driven by execute_command, undo and redo alone
NextEngine ==
    \/ \E command \in LoadFreeCommands : ExecuteCommand(command)
    \/ Undo
    \/ Redo

SpecEngine == Init /\ [][NextEngine]_vars

\* C32: in any sequence of execute_command, undo and redo calls on a new engine,
\* the road commands joining two different cities, every undo() called with a
\* non-empty undo stack returns true and every redo() called with a non-empty
\* redo stack returns true.
C32_NoCommandDropped ==
    /\ (last.op = "undo" /\ pre.undo_stack /= <<>>) => last.res = "true"
    /\ (last.op = "redo" /\ pre.redo_stack /= <<>>) => last.res = "true"

\* An executed command was undone and then redone, every call returning true and
\* changing the graph
C32_Witness ==
    /\ last.op = "redo" /\ last.after_undone_execute /\ last.res = "true"
    /\ pre.redo_stack /= <<>>
    /\ cities /= pre.cities
    /\ undo_stack /= <<>>

\* Every key of every neighbour map is a city of the map
NoDanglingNeighbour(g) == \A c \in DOMAIN g : DOMAIN g[c] \subseteq DOMAIN g

\* C33: after any sequence of add_city, remove_city, rename_city, add_road,
\* remove_road and update_road_cost calls on an initially empty graph, every key
\* of every city's neighbour map is itself a city of the map.
C33_ReferentialIntegrity == NoDanglingNeighbour(cities)

\* A city with a neighbour was removed, or renamed, by the last call
C33_Witness ==
    /\ last.op \in {"remove_city", "rename_city"} /\ last.res = "true"
    /\ pre.cities[last.call.a] /= EmptyMap
    /\ \E c \in DOMAIN cities : cities[c] /= EmptyMap

\* ------------------------------------------------------------------ a road from a city to itself
\* The map after add_city("A"), add_road("A", "A", 1) and
\* update_road_cost("A", "A", 1, 2): the one list under A -> A is [2, 1]
SelfRoad ==
    update_road_cost(add_road(add_city(EmptyMap, "A").cities, "A", "A", 1).cities,
                     "A", "A", 1, 2).cities

\* A manager constructed over that map
InitSelfRoad ==
    /\ cities = SelfRoad
    /\ undo_stack = <<>>
    /\ redo_stack = <<>>
    /\ history = <<StateDict(cities, <<>>, <<>>)>>
    /\ current_history_index = 0
    /\ file = [parses |-> FALSE]
    /\ calls = 0
    /\ last = Called("init", "true")
    /\ pre = [cities |-> cities, undo_stack |-> <<>>, redo_stack |-> <<>>,
              history |-> <<>>, current_history_index |-> -1]
    /\ SimIdle

\* The graph store alone, from that map on
SpecSelfRoad == InitSelfRoad /\ [][NextCalls]_vars

\* No neighbour key holds an empty cost list
NoEmptyCostList(g) == \A c \in DOMAIN g : \A n \in DOMAIN g[c] : g[c][n] /= <<>>

\* C34: after any sequence of graph-store calls on an initially empty graph,
\* every cost list stored under a neighbour key is non-empty.
C34_NoEmptyPairEntries == NoEmptyCostList(cities)

\* ------------------------------------------------------------------ to_dict
\* CityMap.to_dict(): a dict with the keys 'cities' and '_serializer' and no key
\* '_version'; under 'cities' the map itself, under '_serializer' a string
to_dict(g) ==
    LET cs == SeqOf(DOMAIN g)
        Roads(c) == LET ns == SeqOf(DOMAIN g[c])
                    IN  [j \in 1..Len(ns) |-> KV(ns[j], JList(g[c][ns[j]]))]
    IN  [isDict |-> TRUE,
         top |-> <<KV("cities", JDict([i \in 1..Len(cs) |-> KV(cs[i], JDict(Roads(cs[i])))])),
                   KV("_serializer", [isDict |-> FALSE])>>]

\* from_dict(to_dict()) on a new CityMap gives the map g
RoundTrips(g) ==
    LET r == from_dict(EmptyMap, to_dict(g))
    IN  r.res = "true" /\ r.cities = g

\* C35: for every graph m, loading m.to_dict() with from_dict into a new graph
\* store yields the node set of m and the neighbour-to-cost-list maps of m.
C35_DictRoundTrip == RoundTrips(cities)

\* ------------------------------------------------------------------ printer simulation (3.py)
NumWorkers == 3                 \* num_workers
NumRequests == 5                \* range(1, 6)
PhotoNumbers == {1, 2}          \* the numbers random.randint draws, two of them

Handlers == {"bw", "color"}     \* bw_handler with bw_printer, color_handler with color_printer
PrinterStates == {"A4State", "PhotoState"}

\* The None main puts on the queue to stop a worker; also a worker that holds
\* no request
Sentinel == [type |-> "None"]

Document(id) == [kind |-> "document", id |-> id]
Photo(n) == [kind |-> "photo", n |-> n]

\* generate_request(request_id): the requests the random choices can give
generate_request(request_id) ==
    {[id |-> request_id, type |-> t, needs_color |-> c, has_photo |-> h,
      content |-> [kind |-> "none"]] :
        <<t, c, h>> \in {x \in {"A4", "photo"} \X BOOLEAN \X BOOLEAN :
                            /\ x[1] = "photo" => x[2]
                            /\ x[1] = "A4" => ~x[3]}}

\* A handler that takes every request
can_handle_any(handler, request) == TRUE

\* BlackAndWhiteHandler.can_handle, ColorHandler.can_handle
can_handle(handler, request) ==
    IF handler = "bw" THEN ~request.needs_color ELSE request.needs_color

\* bw_handler, its successor color_handler, no successor after it
Chain == <<"bw", "color">>

\* PrinterHandler.handle_request from the k-th handler of the chain on: the
\* handler whose process_request runs, "none" when the request cannot be handled
RECURSIVE handle_request(_, _)
handle_request(k, request) ==
    IF k > Len(Chain) THEN "none"
    ELSE IF can_handle(Chain[k], request) THEN Chain[k]
    ELSE handle_request(k + 1, request)

\* A4State() if request['type'] == 'A4' else PhotoState()
StateFor(request) == IF request.type = "A4" THEN "A4State" ELSE "PhotoState"

\* with self.lock, entered without waiting for the lock
AcquiredAnyway(lock) == TRUE

\* with self.lock: entered when no thread holds the lock
Acquired(lock) == ~lock

\* A request_processor thread at request_queue.get() with no request
AtGet == [pc |-> "get", request |-> Sentinel, handler |-> "none"]

\* A request_processor thread that returned
Exited == [pc |-> "exited", request |-> Sentinel, handler |-> "none"]

\* The threads with one of them, at old, moved on to new
Moved(old, new) == (workers (-) SetToBag({old})) (+) SetToBag({new})

engine_fields == <<cities, undo_stack, redo_stack, history, current_history_index,
                   file, calls, last, pre>>

\* main() after its worker.start() loop: two printers in a random state each,
\* an empty queue, the workers (all of them the same function on the same
\* arguments) waiting in get()
InitSim ==
    /\ cities = EmptyMap
    /\ undo_stack = <<>>
    /\ redo_stack = <<>>
    /\ history = <<>>
    /\ current_history_index = -1
    /\ file = [parses |-> FALSE]
    /\ calls = 0
    /\ last = Called("init", "true")
    /\ pre = [cities |-> EmptyMap, undo_stack |-> <<>>, redo_stack |-> <<>>,
              history |-> <<>>, current_history_index |-> -1]
    /\ printers \in [Handlers -> PrinterStates]
    /\ cached_photo = 0
    /\ proxy_lock = FALSE
    /\ real_calls = 0
    /\ returned_photos = {}
    /\ request_queue = <<>>
    /\ unfinished_tasks = 0
    /\ main = [pc |-> "put", i |-> 0]
    /\ workers = [wr \in {AtGet} |-> NumWorkers]
    /\ taken = [id \in 1..NumRequests |-> 0]

\* main: request = generate_request(i); request_queue.put(request)
MainPut ==
    /\ main.pc = "put"
    /\ \E request \in generate_request(main.i + 1) :
          request_queue' = Append(request_queue, request)
    /\ unfinished_tasks' = unfinished_tasks + 1
    /\ main' = IF main.i + 1 = NumRequests THEN [pc |-> "join", i |-> 0]
               ELSE [pc |-> "put", i |-> main.i + 1]
    /\ UNCHANGED <<printers, cached_photo, proxy_lock, real_calls, returned_photos, workers, taken>>
    /\ UNCHANGED engine_fields

\* main: request_queue.join() returns once every put was answered by a task_done
MainJoin ==
    /\ main.pc = "join"
    /\ unfinished_tasks = 0
    /\ main' = [pc |-> "stop", i |-> 0]
    /\ UNCHANGED <<printers, cached_photo, proxy_lock, real_calls, returned_photos, request_queue,
                   unfinished_tasks, workers, taken>>
    /\ UNCHANGED engine_fields

\* main: request_queue.put(None), once per worker
MainStop ==
    /\ main.pc = "stop"
    /\ request_queue' = Append(request_queue, Sentinel)
    /\ unfinished_tasks' = unfinished_tasks + 1
    /\ main' = IF main.i + 1 = NumWorkers THEN [pc |-> "join_workers", i |-> 0]
               ELSE [pc |-> "stop", i |-> main.i + 1]
    /\ UNCHANGED <<printers, cached_photo, proxy_lock, real_calls, returned_photos, workers, taken>>
    /\ UNCHANGED engine_fields

\* main: the loop of worker.join() returns once every worker returned
MainJoinWorkers ==
    /\ main.pc = "join_workers"
    /\ BagToSet(workers) = {Exited}
    /\ main' = [pc |-> "done", i |-> 0]
    /\ UNCHANGED <<printers, cached_photo, proxy_lock, real_calls, returned_photos, request_queue,
                   unfinished_tasks, workers, taken>>
    /\ UNCHANGED engine_fields

\* handler.handle_request raising: the exception ends the thread
HandlingRaises(request) == Exited

\* The worker that holds request with its content set: handler.handle_request
\* up to the handler's set_state, or to task_done when no handler takes it
Handling(request) ==
    LET handler == handle_request(1, request)
    IN  [pc |-> IF handler = "none" THEN "task_done" ELSE "set_state",
         request |-> request, handler |-> handler]

\* request_processor: request = request_queue.get(); break on None; the content
\* of a request that needs no photo taken
Get(wr) ==
    /\ wr.pc = "get"
    /\ request_queue /= <<>>
    /\ LET request == Head(request_queue)
       IN  /\ request_queue' = Tail(request_queue)
           /\ IF request = Sentinel
              THEN /\ workers' = Moved(wr, Exited)
                   /\ UNCHANGED taken
              ELSE /\ taken' = [taken EXCEPT ![request.id] = @ + 1]
                   /\ workers' = Moved(wr,
                         IF request.type = "photo" /\ ~request.has_photo
                         THEN [AtGet EXCEPT !.pc = "take_photo", !.request = request]
                         ELSE Handling([request EXCEPT !.content = Document(request.id)]))
    /\ UNCHANGED <<printers, cached_photo, proxy_lock, real_calls, returned_photos, unfinished_tasks, main>>
    /\ UNCHANGED engine_fields

\* request_processor: request['content'] = photo_proxy.take_photo().  The proxy
\* takes its lock; with a photo cached it returns that photo and the lock is
\* free again, without one it goes on to the real service, the lock held
TakePhoto(wr) ==
    /\ wr.pc = "take_photo"
    /\ Acquired(proxy_lock)
    /\ IF cached_photo = 0
       THEN /\ proxy_lock' = TRUE
            /\ workers' = Moved(wr, [wr EXCEPT !.pc = "real_take_photo"])
            /\ UNCHANGED returned_photos
       ELSE /\ proxy_lock' = proxy_lock
            /\ returned_photos' = returned_photos \cup {cached_photo}
            /\ workers' = Moved(wr, Handling([wr.request EXCEPT !.content = Photo(cached_photo)]))
    /\ UNCHANGED <<printers, cached_photo, real_calls, request_queue, unfinished_tasks,
                   main, taken>>
    /\ UNCHANGED engine_fields

\* PhotoServiceProxy.take_photo: self.cached_photo = self.real_service.take_photo(),
\* the photo returned and the lock released
RealTakePhoto(wr) ==
    /\ wr.pc = "real_take_photo"
    /\ \E fresh \in PhotoNumbers :
          /\ cached_photo' = fresh
          /\ returned_photos' = returned_photos \cup {fresh}
          /\ workers' = Moved(wr, Handling([wr.request EXCEPT !.content = Photo(fresh)]))
    /\ real_calls' = real_calls + 1
    /\ proxy_lock' = FALSE
    /\ UNCHANGED <<printers, request_queue, unfinished_tasks, main, taken>>
    /\ UNCHANGED engine_fields

\* process_request: self.printer.set_state(...), under the printer's lock
SetState(wr) ==
    /\ wr.pc = "set_state"
    /\ printers' = [printers EXCEPT ![wr.handler] = StateFor(wr.request)]
    /\ workers' = Moved(wr, [wr EXCEPT !.pc = "configure"])
    /\ UNCHANGED <<cached_photo, proxy_lock, real_calls, returned_photos, request_queue,
                   unfinished_tasks, main, taken>>
    /\ UNCHANGED engine_fields

\* process_request: self.printer.configure(), under the printer's lock: the
\* state object the printer holds now configures it
Configure(wr) ==
    /\ wr.pc = "configure"
    /\ workers' = Moved(wr, [wr EXCEPT !.pc = "print_document"])
    /\ UNCHANGED <<printers, cached_photo, proxy_lock, real_calls, returned_photos, request_queue,
                   unfinished_tasks, main, taken>>
    /\ UNCHANGED engine_fields

\* process_request: self.printer.print_document(content), under the printer's
\* lock: the state object the printer holds now prints
PrintDocument(wr) ==
    /\ wr.pc = "print_document"
    /\ workers' = Moved(wr, [wr EXCEPT !.pc = "task_done"])
    /\ UNCHANGED <<printers, cached_photo, proxy_lock, real_calls, returned_photos, request_queue,
                   unfinished_tasks, main, taken>>
    /\ UNCHANGED engine_fields

\* request_processor: request_queue.task_done(), then the next turn of the loop
TaskDone(wr) ==
    /\ wr.pc = "task_done"
    /\ unfinished_tasks' = unfinished_tasks - 1
    /\ workers' = Moved(wr, AtGet)
    /\ UNCHANGED <<printers, cached_photo, proxy_lock, real_calls, returned_photos, request_queue,
                   main, taken>>
    /\ UNCHANGED engine_fields

MainStep == MainPut \/ MainJoin \/ MainStop \/ MainJoinWorkers

WorkerStep(wr) ==
    \/ Get(wr) \/ TakePhoto(wr) \/ RealTakePhoto(wr)
    \/ SetState(wr) \/ Configure(wr) \/ PrintDocument(wr) \/ TaskDone(wr)

NextSim ==
    \/ MainPut
    \/ MainJoin
    \/ MainStop
    \/ MainJoinWorkers
    \/ \E wr \in BagToSet(workers) : Get(wr)
    \/ \E wr \in BagToSet(workers) : TakePhoto(wr)
    \/ \E wr \in BagToSet(workers) : RealTakePhoto(wr)
    \/ \E wr \in BagToSet(workers) : SetState(wr)
    \/ \E wr \in BagToSet(workers) : Configure(wr)
    \/ \E wr \in BagToSet(workers) : PrintDocument(wr)
    \/ \E wr \in BagToSet(workers) : TaskDone(wr)

SpecSim == InitSim /\ [][NextSim]_vars

\* C36: each request's configure step and print step run in the state set for
\* the request's type: whenever a worker's configure() or print_document() runs,
\* the printer holds the state the worker's own set_state gave it, no other
\* worker's set_state having taken effect since.
C36_RequestStateAtomicity ==
    [][\A wr \in BagToSet(workers) :
          (Configure(wr) \/ PrintDocument(wr)) => printers[wr.handler] = StateFor(wr.request)]_vars

\* Fair scheduling: main and the worker threads each run when they can
SpecSimFair ==
    /\ SpecSim
    /\ WF_vars(MainStep)
    /\ WF_vars(\E wr \in BagToSet(workers) : WorkerStep(wr))

\* main returned: every request was handed out once and answered by a
\* task_done, the queue is empty and every worker returned on a None of its own
Terminated ==
    /\ main.pc = "done"
    /\ BagToSet(workers) = {Exited}
    /\ request_queue = <<>>
    /\ \A id \in 1..NumRequests : taken[id] = 1
    /\ unfinished_tasks = NumWorkers

\* C38: under fair scheduling main puts its 5 requests, every one of them is
\* processed and answered by task_done, request_queue.join() returns, each of
\* the 3 workers takes one None and returns, and main's joins return.
C38_ShutdownTerminates == <>Terminated

\* main returned after a run in which a photo was taken
C38_Witness == Terminated /\ real_calls = 1

\* The workers that hold a request whose content the proxy returned
HoldersOfPhoto ==
    {wr \in BagToSet(workers) :
        /\ wr.pc \in {"set_state", "configure", "print_document", "task_done"}
        /\ wr.request.content.kind = "photo"}

\* C37: whatever the interleaving of the workers that call
\* PhotoServiceProxy.take_photo, RealPhotoService.take_photo runs at most once
\* in total and every call of the proxy returns the same photo.
C37_ProxyCachesOnce ==
    /\ real_calls <= 1
    /\ Cardinality(returned_photos) <= 1
    /\ \A wr \in HoldersOfPhoto : wr.request.content = Photo(cached_photo)

\* Two workers hold a photo of the proxy at once, the real service having run once
C37_Witness ==
    /\ real_calls = 1
    /\ \/ Cardinality(HoldersOfPhoto) >= 2
       \/ \E wr \in HoldersOfPhoto : CopiesIn(wr, workers) >= 2

\* The workers that hold a request
Holders == {wr \in BagToSet(workers) : wr.request /= Sentinel}

\* The ids of the requests waiting on the queue
QueuedIds ==
    {request_queue[k].id : k \in {j \in 1..Len(request_queue) : request_queue[j] /= Sentinel}}

\* The ids main has put so far
PutIds == IF main.pc = "put" THEN 1..main.i ELSE 1..NumRequests

\* C39: every request put on the queue is taken by exactly one worker and
\* processed by exactly one handler of the chain, the black-and-white one iff
\* needs_color is false and the colour one otherwise, and the branch 'request
\* cannot be handled' is reached for no generated request.
C39_HandledOnceByRightPrinter ==
    /\ \A id \in 1..NumRequests :
          taken[id] = (IF id \in PutIds \ QueuedIds THEN 1 ELSE 0)
    /\ \A wr \in Holders : CopiesIn(wr, workers) = 1
    /\ \A wr, other \in Holders : wr.request.id = other.request.id => wr = other
    /\ \A wr \in Holders : wr.request.id \in PutIds \ QueuedIds
    /\ \A wr \in Holders :
          wr.pc \in {"set_state", "configure", "print_document", "task_done"}
             => wr.handler = (IF wr.request.needs_color THEN "color" ELSE "bw")

\* Two workers at work at once, one on each printer
C39_Witness ==
    \E wr, other \in Holders :
        /\ wr.handler = "bw" /\ wr.pc = "print_document"
        /\ other.handler = "color" /\ other.pc = "print_document"
        /\ other.request.id < wr.request.id

====
